---- MODULE Spec2Model ----
(***************************************************************************)
(* A model of the record-decoding and query-composition core of the        *)
(* cursordata SDK (src/src/cursordata).                                    *)
(*                                                                         *)
(* Text that the code inspects character by character (database keys, key  *)
(* patterns, JSON member names, identifiers used in LIKE patterns) is a    *)
(* sequence of one-character strings.  Names that the code only compares   *)
(* (dataclass field names, exception names) are TLA+ strings; Join turns   *)
(* the first into the second.                                              *)
(*                                                                         *)
(* A JSON value is a record [t, v]: t is the JSON type and v the content   *)
(* (the characters of a string, the literal of a number, a sequence of     *)
(* values for arrays, a sequence of <<member name, value>> pairs in        *)
(* insertion order for objects, as Python dicts keep insertion order).     *)
(***************************************************************************)
EXTENDS Integers, Sequences, FiniteSets, TLC

VARIABLES
    pc,        \* which step the modelled call sequence is at
    rkind,     \* record kind whose from_dict is called
    rdata,     \* the decoded JSON object passed to from_dict
    rparts,    \* <<bubble_id, conversation_id>> keyword arguments (None or text)
    rres,      \* outcome of from_dict: an instance or a raised exception
    k_key,     \* the database key passed to parse_key_pattern
    k_pattern, \* the pattern passed to parse_key_pattern
    kres,      \* what parse_key_pattern returned
    dvalue,    \* the database value passed to decode_json_value
    dres,      \* what decode_json_value returned, or the exception it raised
    table,     \* the rows of cursorDiskKV, in the order a scan returns them
    tracking,  \* the ItemTable value under aiCodeTrackingLines, None when absent
    qkind,     \* which query the builder is: the QueryBuilder method called
    qlimit,    \* BaseQuery._limit: None or an int
    qoffset,   \* BaseQuery._offset
    qfilters,  \* BaseQuery._filters: the predicates, in the order added
    qid,       \* _bubble_id / _composer_id of the query: None or text
    qres,      \* outcome of execute() (or of parse_cursordiskkv_rows)
    cres,      \* outcome of Collection.filter on the result of execute()
    heap,      \* the Python lists a caller and a Collection can share, by identity
    c_items,   \* Collection._items: the identity of the list the collection holds
    held,      \* the lists the caller has a reference to, and where it got each
    c_out,     \* the last call on the collection (or on a held list) and its outcome
    connection, \* CursorDataClient._connection: 0 for None, else the connection's identity
    live,      \* the connections sqlite3 has open
    opened,    \* how many connections sqlite3.connect has made so far
    requests,  \* how many statements were sent to the database so far
    generator, \* the generator iterate_all_keys returned, None before
    scope,     \* whether the caller is inside a with-block on the client
    cl_out,    \* the last call on the client (or on its generator) and its outcome
    calls,     \* the calls made on the query builder so far, each with what it returned
    qagain,    \* outcome of a second execute() on the same builder
    call,      \* the function called on its own and the arguments it got
    result     \* what that call returned, or the exception it raised

recVars == <<rkind, rdata, rparts, rres>>
keyVars == <<k_key, k_pattern, kres>>
decVars == <<dvalue, dres>>
dbVars == <<table, tracking>>
qryVars == <<qkind, qlimit, qoffset, qfilters, qid, qres, cres>>
collVars == <<heap, c_items, held, c_out>>
cliVars == <<connection, live, opened, requests, generator, scope, cl_out>>
bldVars == <<calls, qagain>>
fnVars == <<call, result>>
vars == <<pc, recVars, keyVars, decVars, dbVars, qryVars, collVars, cliVars, bldVars, fnVars>>

None == [t |-> "None", v |-> "None"]

(***************************************************************************)
(* Bounds of the model.                                                    *)
(***************************************************************************)
MaxKeys == 3      \* members of a payload object
MaxKeyLen == 6    \* characters of a database key
MaxTokens == 4    \* lexemes of a stored value
\* nesting depth at which the interpreter stops json.loads with
\* RecursionError (sys.getrecursionlimit() in CPython, scaled to the model)
RecursionLimit == 3

(***************************************************************************)
(* Characters.                                                             *)
(***************************************************************************)
UpperSeq == <<"A","B","C","D","E","F","G","H","I","J","K","L","M",
              "N","O","P","Q","R","S","T","U","V","W","X","Y","Z">>
LowerSeq == <<"a","b","c","d","e","f","g","h","i","j","k","l","m",
              "n","o","p","q","r","s","t","u","v","w","x","y","z">>
DigitSeq == <<"0","1","2","3","4","5","6","7","8","9">>

Range(s) == {s[i] : i \in DOMAIN s}
Upper == Range(UpperSeq)
Lower == Range(LowerSeq)
Digit == Range(DigitSeq)

\* str.lower() on one character
LowerChar(c) ==
    IF c \in Upper THEN LowerSeq[CHOOSE i \in DOMAIN UpperSeq : UpperSeq[i] = c]
    ELSE c

RECURSIVE Join(_)
Join(s) == IF s = <<>> THEN "" ELSE Head(s) \o Join(Tail(s))

Max(S) == CHOOSE m \in S : \A n \in S : n <= m
Min(S) == CHOOSE m \in S : \A n \in S : m <= n


(***************************************************************************)
(* camel_to_snake: two regular-expression substitutions and lower().       *)
(***************************************************************************)
\* length of the run of lower-case letters of s that starts at position i
RECURSIVE LowerRun(_, _)
LowerRun(s, i) ==
    IF i <= Len(s) /\ s[i] \in Lower THEN 1 + LowerRun(s, i + 1) ELSE 0

\* re.sub("(.)([A-Z][a-z]+)", r"\1_\2", s), scanning from position i
RECURSIVE Sub1(_, _)
Sub1(s, i) ==
    IF i > Len(s) THEN <<>>
    ELSE IF /\ s[i] # "\n"
            /\ i + 2 <= Len(s)
            /\ s[i + 1] \in Upper
            /\ LowerRun(s, i + 2) >= 1
         THEN LET n == LowerRun(s, i + 2)
              IN  <<s[i], "_">> \o SubSeq(s, i + 1, i + 1 + n) \o Sub1(s, i + 2 + n)
         ELSE <<s[i]>> \o Sub1(s, i + 1)

\* re.sub("([a-z0-9])([A-Z])", r"\1_\2", s), scanning from position i
RECURSIVE Sub2(_, _)
Sub2(s, i) ==
    IF i > Len(s) THEN <<>>
    ELSE IF /\ s[i] \in Lower \cup Digit
            /\ i + 1 <= Len(s)
            /\ s[i + 1] \in Upper
         THEN <<s[i], "_", s[i + 1]>> \o Sub2(s, i + 2)
         ELSE <<s[i]>> \o Sub2(s, i + 1)

LowerStr(s) == [i \in DOMAIN s |-> LowerChar(s[i])]

\* camel_to_snake without the final lower()
camel_to_snake_NoLower(name) == Sub2(Sub1(name, 1), 1)

\* camel_to_snake(name)
camel_to_snake(name) == LowerStr(Sub2(Sub1(name, 1), 1))

(***************************************************************************)
(* Python dicts: sequences of <<key, value>> with distinct keys, in        *)
(* insertion order.                                                        *)
(***************************************************************************)
DictKeys(d) == {d[i][1] : i \in DOMAIN d}
DictHas(d, k) == k \in DictKeys(d)
DictGet(d, k) == d[CHOOSE i \in DOMAIN d : d[i][1] = k][2]
\* d[k] = v : an existing key keeps its position
DictSet(d, k, v) ==
    IF DictHas(d, k)
    THEN [i \in DOMAIN d |-> IF d[i][1] = k THEN <<k, v>> ELSE d[i]]
    ELSE Append(d, <<k, v>>)
\* d.pop(k) for a key that is present: the dict without it
DictDel(d, k) == SelectSeq(d, LAMBDA e : e[1] # k)

JObj(d) == [t |-> "obj", v |-> d]
JStr(s) == [t |-> "str", v |-> s]
JNum(s) == [t |-> "num", v |-> s]
JArr(a) == [t |-> "arr", v |-> a]
JBool(b) == [t |-> "bool", v |-> IF b THEN "true" ELSE "false"]
IsDict(x) == x.t = "obj"

(***************************************************************************)
(* auto_map_camel_to_snake(data, known_fields): returns <<mapped,          *)
(* unknown>>.  known_fields is None or JObj(camelCase -> snake_case).      *)
(* Keys of mapped are field names (strings).                               *)
(***************************************************************************)
\* for key, value in data.items(): mapped[camel_to_snake(key)] = value,
\* skipping the keys the guard excludes
RECURSIVE AutoConvert(_, _, _)
AutoConvert(mapped, items, skip) ==
    IF items = <<>> THEN mapped
    ELSE LET key == Head(items)[1]
             value == Head(items)[2]
         IN  IF key \in skip
             THEN AutoConvert(mapped, Tail(items), skip)
             ELSE AutoConvert(DictSet(mapped, Join(camel_to_snake(key)), value),
                              Tail(items), skip)

\* for camel_key, snake_key in known_fields.items():
\*     if camel_key in data: mapped[snake_key] = data[camel_key]
RECURSIVE MapKnown(_, _, _)
MapKnown(mapped, known, data) ==
    IF known = <<>> THEN mapped
    ELSE LET camel_key == Head(known)[1]
             snake_key == Head(known)[2]
         IN  IF DictHas(data, camel_key)
             THEN MapKnown(DictSet(mapped, snake_key, DictGet(data, camel_key)),
                           Tail(known), data)
             ELSE MapKnown(mapped, Tail(known), data)

auto_map_camel_to_snake(data, known_fields) ==
    LET unknown == <<>>
        mapped ==
            IF known_fields # None /\ known_fields.v # <<>>
            THEN AutoConvert(MapKnown(<<>>, known_fields.v, data), data,
                             DictKeys(known_fields.v))
            ELSE AutoConvert(<<>>, data, {})
    IN  <<mapped, unknown>>

(***************************************************************************)
(* decode_json_value(value).  A stored value is None, bytes or str; its    *)
(* content is a sequence of lexemes: punctuation, number and string        *)
(* literals, the literals null and true, a character that begins no JSON   *)
(* lexeme, and (in bytes only) a byte sequence that is not UTF-8.          *)
(***************************************************************************)
Punct(c) == [t |-> "punct", v |-> c]
NumLit(digits) == [t |-> "numlit", v |-> digits]
StrLit(chars) == [t |-> "strlit", v |-> chars]
T_null == [t |-> "lit", v |-> "null"]
T_true == [t |-> "lit", v |-> "true"]
T_garbage == [t |-> "bad", v |-> "?"]
T_xff == [t |-> "byte", v |-> "\\xff"]

Bytes(toks) == [t |-> "bytes", v |-> toks]
Str(toks) == [t |-> "text", v |-> toks]

ParseErr(exc) == [err |-> exc, val |-> None, nxt |-> 0]
ParseOk(val, nxt) == [err |-> "", val |-> val, nxt |-> nxt]

\* json.loads: the recursive scanner.  depth counts the enclosing arrays
\* and objects; entering one more than the interpreter allows raises
\* RecursionError.
RECURSIVE ParseValue(_, _, _)
RECURSIVE ParseElements(_, _, _, _)
RECURSIVE ParseMembers(_, _, _, _)

ParseValue(toks, i, depth) ==
    IF i > Len(toks) THEN ParseErr("JSONDecodeError")
    ELSE LET tok == toks[i] IN
         CASE tok.t = "numlit" -> ParseOk(JNum(tok.v), i + 1)
           [] tok.t = "strlit" -> ParseOk(JStr(tok.v), i + 1)
           [] tok = T_null -> ParseOk(None, i + 1)
           [] tok = T_true -> ParseOk(JBool(TRUE), i + 1)
           [] tok = Punct("[") ->
                IF depth + 1 > RecursionLimit THEN ParseErr("RecursionError")
                ELSE IF i + 1 <= Len(toks) /\ toks[i + 1] = Punct("]")
                THEN ParseOk(JArr(<<>>), i + 2)
                ELSE ParseElements(toks, i + 1, depth + 1, <<>>)
           [] tok = Punct("{") ->
                IF depth + 1 > RecursionLimit THEN ParseErr("RecursionError")
                ELSE IF i + 1 <= Len(toks) /\ toks[i + 1] = Punct("}")
                THEN ParseOk(JObj(<<>>), i + 2)
                ELSE ParseMembers(toks, i + 1, depth + 1, <<>>)
           [] OTHER -> ParseErr("JSONDecodeError")

ParseElements(toks, i, depth, acc) ==
    LET r == ParseValue(toks, i, depth) IN
    IF r.err # "" THEN r
    ELSE IF r.nxt > Len(toks) THEN ParseErr("JSONDecodeError")
    ELSE IF toks[r.nxt] = Punct(",")
    THEN ParseElements(toks, r.nxt + 1, depth, Append(acc, r.val))
    ELSE IF toks[r.nxt] = Punct("]")
    THEN ParseOk(JArr(Append(acc, r.val)), r.nxt + 1)
    ELSE ParseErr("JSONDecodeError")

ParseMembers(toks, i, depth, acc) ==
    IF i + 1 > Len(toks) \/ toks[i].t # "strlit" \/ toks[i + 1] # Punct(":")
    THEN ParseErr("JSONDecodeError")
    ELSE LET r == ParseValue(toks, i + 2, depth) IN
         IF r.err # "" THEN r
         ELSE IF r.nxt > Len(toks) THEN ParseErr("JSONDecodeError")
         ELSE IF toks[r.nxt] = Punct(",")
         THEN ParseMembers(toks, r.nxt + 1, depth, DictSet(acc, toks[i].v, r.val))
         ELSE IF toks[r.nxt] = Punct("}")
         THEN ParseOk(JObj(DictSet(acc, toks[i].v, r.val)), r.nxt + 1)
         ELSE ParseErr("JSONDecodeError")

\* json.loads(text): a value followed by nothing, or an exception
json_loads(toks) ==
    LET r == ParseValue(toks, 1, 0) IN
    IF r.err # "" THEN r
    ELSE IF r.nxt <= Len(toks) THEN ParseErr("JSONDecodeError")
    ELSE r

\* value.decode("utf-8")
utf8_decode(toks) ==
    IF \E i \in DOMAIN toks : toks[i] = T_xff THEN ParseErr("UnicodeDecodeError")
    ELSE ParseOk(toks, 0)

Exc(name) == [t |-> "exc", v |-> name]

\* the exceptions the except clause of decode_json_value names
DecodeCaught == {"JSONDecodeError", "UnicodeDecodeError"}

decode_json_value(value) ==
    IF value = None THEN None
    ELSE LET text == IF value.t = "bytes" THEN utf8_decode(value.v)
                     ELSE ParseOk(value.v, 0)
             r == IF text.err # "" THEN text ELSE json_loads(text.val)
         IN  IF r.err = "" THEN r.val
             ELSE IF r.err \in DecodeCaught THEN None
             ELSE Exc(r.err)

(***************************************************************************)
(* parse_key_pattern(key, pattern).                                        *)
(***************************************************************************)
\* position of the first occurrence of character c in s, 0 when absent
IndexOf(s, c) ==
    IF \E i \in DOMAIN s : s[i] = c THEN Min({i \in DOMAIN s : s[i] = c}) ELSE 0

\* str.split(sep) for a one-character separator
RECURSIVE Split(_, _)
Split(s, sep) ==
    LET i == IndexOf(s, sep)
    IN  IF i = 0 THEN <<s>>
        ELSE <<SubSeq(s, 1, i - 1)>> \o Split(SubSeq(s, i + 1, Len(s)), sep)

\* a Python regular expression, as far as parse_key_pattern builds one:
\* a sequence of escaped literals and named groups
Lit(text) == [k |-> "lit", s |-> text, cls |-> ""]
Grp(name, cls) == [k |-> "grp", s |-> name, cls |-> cls]

\* the loop "for i, part in enumerate(parts[1:])", from element n of parts on
RECURSIVE RegexFrom(_, _)
RegexFrom(parts, n) ==
    IF n > Len(parts) THEN <<>>
    ELSE LET part == parts[n]
             i == n - 2
             cut == IndexOf(part, "}")
             name == SubSeq(part, 1, cut - 1)
             rest == SubSeq(part, cut + 1, Len(part))
         IN  IF cut = 0 THEN RegexFrom(parts, n + 1)
             ELSE <<IF i = Len(parts) - 2 THEN Grp(name, "any*")
                    ELSE Grp(name, "nocolon+")>>
                  \o (IF rest # <<>> THEN <<Lit(rest)>> ELSE <<>>)
                  \o RegexFrom(parts, n + 1)

\* what "(?P<name>...)" demands of a group name: a Python identifier
ValidGroupName(name) ==
    /\ name # <<>>
    /\ name[1] \in Upper \cup Lower \cup {"_"}
    /\ \A i \in DOMAIN name : name[i] \in Upper \cup Lower \cup Digit \cup {"_"}

\* re.compile succeeds: valid group names, none used twice
Compiles(regex) ==
    /\ \A i \in DOMAIN regex : regex[i].k = "grp" => ValidGroupName(regex[i].s)
    /\ \A i, j \in DOMAIN regex :
           (regex[i].k = "grp" /\ regex[j].k = "grp" /\ regex[i].s = regex[j].s) => i = j

\* a character of the class the group repeats: "." excludes the newline,
\* "[^:]" excludes the colon
InClass(c, cls) == IF cls = "any*" THEN c # "\n" ELSE c # ":"
MinRepeat(cls) == IF cls = "any*" THEN 0 ELSE 1

\* number of consecutive characters of the class in key from position pos
RECURSIVE ClassRun(_, _, _)
ClassRun(key, pos, cls) ==
    IF pos <= Len(key) /\ InClass(key[pos], cls)
    THEN 1 + ClassRun(key, pos + 1, cls) ELSE 0

NoMatch == [ok |-> FALSE, caps |-> <<>>]

\* the backtracking matcher: item j of regex onwards against key from
\* position pos; a greedy group takes the longest run that lets the rest
\* match; the end of the regex need not be the end of key (re.match)
RECURSIVE MatchFrom(_, _, _, _)
MatchFrom(regex, j, key, pos) ==
    IF j > Len(regex) THEN [ok |-> TRUE, caps |-> <<>>]
    ELSE LET item == regex[j] IN
         IF item.k = "lit"
         THEN IF /\ pos + Len(item.s) - 1 <= Len(key)
                 /\ SubSeq(key, pos, pos + Len(item.s) - 1) = item.s
              THEN MatchFrom(regex, j + 1, key, pos + Len(item.s))
              ELSE NoMatch
         ELSE LET run == ClassRun(key, pos, item.cls)
                  fits == {n \in MinRepeat(item.cls)..run :
                              MatchFrom(regex, j + 1, key, pos + n).ok}
              IN  IF fits = {} THEN NoMatch
                  ELSE LET n == Max(fits)
                           tail == MatchFrom(regex, j + 1, key, pos + n)
                       IN  [ok |-> TRUE,
                            caps |-> << <<item.s, JStr(SubSeq(key, pos, pos + n - 1))>> >>
                                     \o tail.caps]

ReError == [t |-> "exc", v |-> "re.error"]

\* returns None, a dict of the captured parts, or raises re.error
parse_key_pattern(key, pattern) ==
    LET parts == Split(pattern, "{")
        regex == <<Lit(parts[1])>> \o RegexFrom(parts, 2)
        match == MatchFrom(regex, 1, key, 1)
    IN  IF Len(parts) = 1
        THEN (IF key = pattern THEN JObj(<<>>) ELSE None)
        ELSE IF ~Compiles(regex) THEN ReError
        ELSE IF match.ok THEN JObj(match.caps)
        ELSE None

(***************************************************************************)
(* The dataclasses of cursordiskkv_models.py: declared fields by default.  *)
(***************************************************************************)
BubbleNoneFields ==
    {"_v", "type", "bubble_id", "request_id", "checkpoint_id", "text",
     "rich_text", "created_at", "context", "unified_mode", "model_info"}
BubbleListFields ==
    {"attached_code_chunks", "attached_file_code_chunks_metadata_only",
     "attached_folders", "attached_folders_new",
     "attached_folders_list_dir_results", "human_changes", "cursor_rules",
     "knowledge_items", "docs_references", "web_references",
     "ai_web_search_results", "external_links", "suggested_code_blocks",
     "user_responses_to_suggested_code_blocks", "assistant_suggested_diffs",
     "diffs_since_last_apply", "git_diffs", "file_diff_trajectories",
     "diff_histories", "diffs_for_compressing_files",
     "codebase_context_chunks", "lints", "approximate_lint_errors",
     "multi_file_linter_errors", "terminal_files", "interpreter_results",
     "tool_results", "supported_tools", "commits", "pull_requests",
     "capabilities", "capability_contexts", "ui_element_picked", "notepads",
     "recent_locations_history", "recently_viewed_files", "project_layouts",
     "relevant_files", "summarized_composers", "edit_trail_contexts",
     "all_thinking_blocks", "context_pieces", "console_logs", "todos",
     "deleted_files", "images", "documentation_selections"}
BubbleBoolFields ==
    {"attached_human_changes", "existed_previous_terminal_command",
     "existed_subsequent_terminal_command", "is_agentic", "is_refunded",
     "is_nudge", "is_quick_search_query", "is_plan_execution", "use_web",
     "edit_tool_supports_search_and_replace", "skip_rendering"}
BubbleDictFields == {"capability_statuses", "token_count", "_raw_data"}

MessageRequestContextListFields ==
    {"multi_file_linter_errors", "terminal_files", "cursor_rules",
     "attached_folders_list_dir_results", "summarized_composers",
     "deleted_files", "diffs_since_last_apply", "todos",
     "attached_file_code_chunks_metadata_only", "project_layouts",
     "knowledge_items"}

CheckpointListFields ==
    {"non_existent_files", "newly_created_folders", "active_inline_diffs",
     "inline_diff_newly_created_resources"}
CheckpointDictFields == {"files", "_raw_data"}

CodeBlockDiffNoneFields == {"new_model_diff_wrt_v0", "original_model_diff_wrt_v0"}

ComposerDataNoneFields ==
    {"_v", "composer_id", "text", "rich_text", "status", "context",
     "full_conversation_headers_only", "conversation_map", "code_block_data",
     "original_file_states"}
ComposerDataBoolFields == {"has_loaded", "is_reading_long_file"}
ComposerDataListFields ==
    {"git_graph_file_suggestions", "generating_bubble_ids", "newly_created_files"}

AutoKinds == {"BubbleConversation", "MessageRequestContext", "Checkpoint",
              "CodeBlockDiff", "ComposerData"}
RecordKinds == AutoKinds \cup {"AICodeTrackingEntry"}

NoneFields(kind) ==
    CASE kind = "BubbleConversation" -> BubbleNoneFields
      [] kind = "CodeBlockDiff" -> CodeBlockDiffNoneFields
      [] kind = "ComposerData" -> ComposerDataNoneFields
      [] OTHER -> {}
ListFields(kind) ==
    CASE kind = "BubbleConversation" -> BubbleListFields
      [] kind = "MessageRequestContext" -> MessageRequestContextListFields
      [] kind = "Checkpoint" -> CheckpointListFields
      [] kind = "ComposerData" -> ComposerDataListFields
      [] OTHER -> {}
BoolFields(kind) ==
    CASE kind = "BubbleConversation" -> BubbleBoolFields
      [] kind = "ComposerData" -> ComposerDataBoolFields
      [] OTHER -> {}
DictFields(kind) ==
    CASE kind = "BubbleConversation" -> BubbleDictFields
      [] kind = "Checkpoint" -> CheckpointDictFields
      [] kind \in {"MessageRequestContext", "CodeBlockDiff", "ComposerData"} -> {"_raw_data"}
      [] OTHER -> {}

\* the parameters of the generated __init__
DeclaredFields(kind) ==
    IF kind = "AICodeTrackingEntry" THEN {"hash", "metadata"}
    ELSE NoneFields(kind) \cup ListFields(kind) \cup BoolFields(kind) \cup DictFields(kind)

\* the fields a payload can populate: every declared field but the raw bag
ModeledFields(kind) == DeclaredFields(kind) \ {"_raw_data"}

DefaultOf(kind, f) ==
    IF f \in ListFields(kind) THEN JArr(<<>>)
    ELSE IF f \in DictFields(kind) THEN JObj(<<>>)
    ELSE IF f \in BoolFields(kind) THEN JBool(FALSE)
    ELSE None

Raised(exc, data) == [status |-> "raised", exc |-> exc, inst |-> None, data |-> data]
Returned(inst, data) == [status |-> "ok", exc |-> "", inst |-> inst, data |-> data]

\* cls(**kwargs) of a dataclass whose fields all have defaults: an
\* unexpected keyword raises TypeError, an absent one takes its default
Construct(kind, kwargs, data) ==
    IF DictKeys(kwargs) \subseteq DeclaredFields(kind)
    THEN Returned([kind |-> kind,
                   fields |-> [f \in DeclaredFields(kind) |->
                                  IF DictHas(kwargs, f) THEN DictGet(kwargs, f)
                                  ELSE DefaultOf(kind, f)]],
                  data)
    ELSE Raised("TypeError", data)

\* truth value of an optional string argument
Truthy(x) == x # None /\ x.v # <<>>

(***************************************************************************)
(* JSON member names the code spells out.                                  *)
(***************************************************************************)
K_model_name == <<"m","o","d","e","l","_","n","a","m","e">>
K_modelName == <<"m","o","d","e","l","N","a","m","e">>
K_inputTokens == <<"i","n","p","u","t","T","o","k","e","n","s">>
K_outputTokens == <<"o","u","t","p","u","t","T","o","k","e","n","s">>
K_conversation_id == <<"c","o","n","v","e","r","s","a","t","i","o","n","_","i","d">>
K_hash == <<"h","a","s","h">>
K_metadata == <<"m","e","t","a","d","a","t","a">>

\* the member of data whose value auto_map_camel_to_snake left under the
\* field name f: the last one whose translated name is f
SourceKey(data, f) ==
    data[Max({i \in DOMAIN data : Join(camel_to_snake(data[i][1])) = f})][1]

(***************************************************************************)
(* BubbleConversation.from_dict(data, bubble_id, conversation_id).         *)
(* The values of kwargs are the objects of data themselves, so a nested    *)
(* dict changed through kwargs is changed in data too: the outcome carries *)
(* data as the call leaves it.                                             *)
(***************************************************************************)
BubbleModelInfo(st) ==
    LET kwargs == st.kwargs IN
    IF DictHas(kwargs, "model_name") /\ ~DictHas(kwargs, "model_info")
    THEN [st EXCEPT !.kwargs =
            DictSet(DictDel(kwargs, "model_name"), "model_info",
                    JObj(<< <<K_modelName, DictGet(kwargs, "model_name")>> >>))]
    ELSE IF DictHas(kwargs, "model_info") /\ IsDict(DictGet(kwargs, "model_info"))
    THEN LET info == DictGet(kwargs, "model_info").v IN
         IF DictHas(info, K_model_name)
         THEN LET info2 == JObj(DictSet(DictDel(info, K_model_name), K_modelName,
                                        DictGet(info, K_model_name)))
              IN  [kwargs |-> DictSet(kwargs, "model_info", info2),
                   data |-> DictSet(st.data, SourceKey(st.data, "model_info"), info2)]
         ELSE st
    ELSE st

\* kwargs["token_count"][member] = kwargs.pop(field), when field is present
BubbleMoveToken(st, field, member) ==
    LET kwargs == st.kwargs IN
    IF DictHas(kwargs, field)
    THEN LET tc == JObj(DictSet(DictGet(kwargs, "token_count").v, member,
                                DictGet(kwargs, field)))
             aliased == \E i \in DOMAIN st.data :
                            Join(camel_to_snake(st.data[i][1])) = "token_count"
         IN  [kwargs |-> DictDel(DictSet(kwargs, "token_count", tc), field),
              data |-> IF st.fresh \/ ~aliased THEN st.data
                       ELSE DictSet(st.data, SourceKey(st.data, "token_count"), tc),
              fresh |-> st.fresh]
    ELSE st

BubbleTokenCount(st) ==
    LET kwargs == st.kwargs
        fresh == ~DictHas(kwargs, "token_count")
                    \/ ~IsDict(DictGet(kwargs, "token_count"))
        st1 == [kwargs |-> IF fresh THEN DictSet(kwargs, "token_count", JObj(<<>>))
                           ELSE kwargs,
                data |-> st.data, fresh |-> fresh]
        st2 == BubbleMoveToken(st1, "input_tokens", K_inputTokens)
        st3 == BubbleMoveToken(st2, "output_tokens", K_outputTokens)
    IN  [kwargs |-> st3.kwargs, data |-> st3.data]

BubbleConversation_from_dict(data, bubble_id, conversation_id) ==
    LET am == auto_map_camel_to_snake(data, None)
        st0 == [kwargs |-> am[1], data |-> data]
        st1 == BubbleModelInfo(st0)
        st2 == BubbleTokenCount(st1)
        kw3 == IF Truthy(bubble_id) THEN DictSet(st2.kwargs, "bubble_id", bubble_id)
               ELSE st2.kwargs
        raw_data == IF Truthy(conversation_id)
                    THEN DictSet(am[2], K_conversation_id, conversation_id)
                    ELSE am[2]
        kw4 == DictSet(kw3, "_raw_data", JObj(raw_data))
    IN  Construct("BubbleConversation", kw4, st2.data)

\* MessageRequestContext, Checkpoint, CodeBlockDiff, ComposerData .from_dict
Plain_from_dict(kind, data) ==
    LET am == auto_map_camel_to_snake(data, None)
        kwargs == DictSet(am[1], "_raw_data", JObj(am[2]))
    IN  Construct(kind, kwargs, data)

\* cls(hash=data["hash"], metadata=data.get("metadata", {}))
AICodeTrackingEntry_from_dict(data) ==
    IF ~DictHas(data, K_hash) THEN Raised("KeyError", data)
    ELSE Returned([kind |-> "AICodeTrackingEntry",
                   fields |-> [f \in {"hash", "metadata"} |->
                       IF f = "hash" THEN DictGet(data, K_hash)
                       ELSE IF DictHas(data, K_metadata) THEN DictGet(data, K_metadata)
                       ELSE JObj(<<>>)]],
                  data)

from_dict(kind, data, bubble_id, conversation_id) ==
    CASE kind = "BubbleConversation" ->
             BubbleConversation_from_dict(data, bubble_id, conversation_id)
      [] kind = "AICodeTrackingEntry" -> AICodeTrackingEntry_from_dict(data)
      [] OTHER -> Plain_from_dict(kind, data)

(***************************************************************************)
(* Specification SpecRecord: one from_dict call on a bounded payload.      *)
(***************************************************************************)
K_bubbleId == <<"b","u","b","b","l","e","I","d">>
K_bubble_id == <<"b","u","b","b","l","e","_","i","d">>
K_unknownField == <<"u","n","k","n","o","w","n","F","i","e","l","d">>
K_modelInfo == <<"m","o","d","e","l","I","n","f","o">>
K_tokenCount == <<"t","o","k","e","n","C","o","u","n","t">>

PayloadKeys == {K_bubbleId, K_bubble_id, K_unknownField, K_modelName,
                K_modelInfo, K_inputTokens, K_tokenCount, K_hash}
PayloadValues == {JNum("42"), JObj(<< <<K_model_name, JStr(<<"m","1">>)>> >>)}

\* the decoded JSON objects with at most n members
RECURSIVE Payloads(_)
Payloads(n) ==
    IF n = 0 THEN {<<>>}
    ELSE LET shorter == Payloads(n - 1)
         IN  shorter \cup
             {Append(d, <<k, v>>) : d \in {x \in shorter : Len(x) = n - 1},
                                    k \in PayloadKeys, v \in PayloadValues}

WellFormedDict(d) == \A i, j \in DOMAIN d : d[i][1] = d[j][1] => i = j

KeyPartArgs == {None, JStr(<<"b","1">>)} \X {None, JStr(<<"c","1">>)}

RecIdle == rkind = "" /\ rdata = <<>> /\ rparts = <<None, None>> /\ rres = None
KeyIdle == k_key = <<>> /\ k_pattern = <<>> /\ kres = None

DecIdle == dvalue = None /\ dres = None
CollIdle == heap = <<>> /\ c_items = 0 /\ held = {} /\ c_out = None
FnIdle == call = None /\ result = None
BldIdle == calls = <<>> /\ qagain = None
CliIdle ==
    /\ connection = 0 /\ live = {} /\ opened = 0 /\ requests = 0
    /\ generator = None /\ scope = "out" /\ cl_out = None
QryIdle ==
    /\ table = <<>> /\ tracking = None /\ qkind = "" /\ qlimit = None
    /\ qoffset = 0 /\ qfilters = <<>> /\ qid = None /\ qres = None /\ cres = None

RecInit ==
    /\ pc = "record"
    /\ rkind \in RecordKinds
    /\ rdata \in {d \in Payloads(MaxKeys) : WellFormedDict(d)}
    /\ rparts \in IF rkind = "BubbleConversation" THEN KeyPartArgs
                  ELSE {<<None, None>>}
    /\ rres = None
    /\ KeyIdle /\ DecIdle /\ QryIdle /\ CollIdle /\ CliIdle /\ BldIdle /\ FnIdle

FromDict ==
    /\ pc = "record"
    /\ rres' = from_dict(rkind, rdata, rparts[1], rparts[2])
    /\ pc' = "record_done"
    /\ UNCHANGED <<fnVars, rkind, rdata, rparts, keyVars, decVars, dbVars, collVars, cliVars, bldVars, qryVars>>

RecNext == FromDict

SpecRecord == RecInit /\ [][RecNext]_vars

\* the raw bag of the instance built
RawBag == rres.inst.fields["_raw_data"].v
FieldName(k) == Join(camel_to_snake(k))
AsModeled(k) == FieldName(k) \in ModeledFields(rkind)
InRawBag(k) == DictHas(RawBag, k)

\* C1: once from_dict has run for a record kind that routes fields, a record
\* exists and every member of the payload is either a modeled field (under
\* its translated name) or in _raw_data (under its original name), never both
C1_NoDataLoss ==
    (pc = "record_done" /\ rkind \in AutoKinds) =>
        /\ rres.status = "ok"
        /\ \A k \in DictKeys(rdata) : AsModeled(k) /= InRawBag(k)

\* C2: from_dict raises only for AICodeTrackingEntry on a payload without
\* 'hash'; in every other case it returns an instance whose fields absent
\* from the payload hold their defaults
C2_NeverFailsOnShape ==
    pc = "record_done" =>
        /\ rres.status = "raised" <=>
               (rkind = "AICodeTrackingEntry" /\ ~DictHas(rdata, K_hash))
        /\ (rres.status = "ok" /\ rkind \in AutoKinds) =>
               \A f \in ModeledFields(rkind) \ {"model_info", "token_count", "bubble_id"} :
                   (\A k \in DictKeys(rdata) : FieldName(k) # f) =>
                       rres.inst.fields[f] = DefaultOf(rkind, f)

(***************************************************************************)
(* Specification SpecKey: one parse_key_pattern call on a bounded key.     *)
(***************************************************************************)
KeyAlphabet == {"k", ":", "-", "\n"}

\* the texts over KeyAlphabet of at most n characters
RECURSIVE Texts(_)
Texts(n) ==
    IF n = 0 THEN {<<>>}
    ELSE LET shorter == Texts(n - 1)
         IN  shorter \cup {Append(x, c) : x \in {y \in shorter : Len(y) = n - 1},
                                          c \in KeyAlphabet}

KeyPatterns == {<<"k",":","{","a","}",":","{","b","}">>, <<"k","-","{","a","}","-","{","b","}">>, <<"k",":","{","a","}">>, <<"k","-","{","a","}">>, <<"k">>, <<"k",":","{","a","}",":","k">>}

KeyInit ==
    /\ pc = "key"
    /\ k_key \in Texts(MaxKeyLen)
    /\ k_pattern \in KeyPatterns
    /\ kres = None
    /\ RecIdle /\ DecIdle /\ QryIdle /\ CollIdle /\ CliIdle /\ BldIdle /\ FnIdle

ParseKey ==
    /\ pc = "key"
    /\ kres' = parse_key_pattern(k_key, k_pattern)
    /\ pc' = "key_done"
    /\ UNCHANGED <<fnVars, k_key, k_pattern, recVars, decVars, dbVars, collVars, cliVars, bldVars, qryVars>>

KeyNext == ParseKey

SpecKey == KeyInit /\ [][KeyNext]_vars

\* the placeholder names of a pattern, in order, and the literal text that
\* follows each of them
PlaceholderNames(pat) ==
    LET segs == Split(pat, "{")
    IN  [i \in 1..(Len(segs) - 1) |-> SubSeq(segs[i + 1], 1, IndexOf(segs[i + 1], "}") - 1)]
LiteralAfter(pat) ==
    LET segs == Split(pat, "{")
    IN  [i \in 1..(Len(segs) - 1) |->
            SubSeq(segs[i + 1], IndexOf(segs[i + 1], "}") + 1, Len(segs[i + 1]))]

\* the key obtained by writing parts[i] in place of the i-th placeholder
RECURSIVE SubstFrom(_, _, _)
SubstFrom(pat, parts, i) ==
    IF i > Len(parts) THEN <<>>
    ELSE parts[i] \o LiteralAfter(pat)[i] \o SubstFrom(pat, parts, i + 1)
Subst(pat, parts) == Split(pat, "{")[1] \o SubstFrom(pat, parts, 1)

\* the delimiter characters of a pattern: those of its literal text
Delimiters(pat) ==
    {":", "-"} \cap UNION {Range(seg) : seg \in Range(Split(pat, "{"))}

SubTexts(s) == {<<>>} \cup {SubSeq(s, a, b) : a, b \in DOMAIN s}
PartTuples(s, n) == [1..n -> SubTexts(s)]

\* a part the round trip is claimed for, read in the claim's favour:
\* non-empty, on one line, without the pattern's delimiter
DelimiterFree(part, pat) ==
    /\ part # <<>>
    /\ \A i \in DOMAIN part : part[i] \notin Delimiters(pat) \cup {"\n"}

CapturesOf(pat, parts) ==
    JObj([i \in DOMAIN parts |-> <<PlaceholderNames(pat)[i], JStr(parts[i])>>])

\* C9: a key built by writing N >= 1 delimiter-free parts into the
\* placeholders of a pattern parses back to exactly those parts, named by
\* their placeholders
C9_RoundTrip ==
    pc = "key_done" =>
        LET n == Len(PlaceholderNames(k_pattern)) IN
        n >= 1 =>
            \A parts \in PartTuples(k_key, n) :
                (/\ \A i \in 1..n : DelimiterFree(parts[i], k_pattern)
                 /\ Subst(k_pattern, parts) = k_key)
                => kres = CapturesOf(k_pattern, parts)

\* the whole key is what the pattern describes for some choice of captures
FullMatch(k, pat) ==
    \E parts \in PartTuples(k, Len(PlaceholderNames(pat))) : Subst(pat, parts) = k

\* C10: parse_key_pattern returns a mapping only if the whole key is matched
\* by the pattern, and for a pattern without placeholders it returns the
\* empty mapping exactly if key = pattern
C10_FullMatchOnly ==
    pc = "key_done" =>
        /\ kres.t = "obj" => FullMatch(k_key, k_pattern)
        /\ Len(PlaceholderNames(k_pattern)) = 0 =>
               (kres = JObj(<<>>) <=> k_key = k_pattern)

(***************************************************************************)
(* Specification SpecDecode: one decode_json_value call on a bounded       *)
(* value.                                                                  *)
(***************************************************************************)
TextLexemes == {Punct("["), Punct("]"), Punct("{"), Punct("}"), Punct(":"),
                Punct(","), NumLit("1"), StrLit(<<"k">>), T_null, T_garbage}

RECURSIVE LexemeSeqs(_, _)
LexemeSeqs(alphabet, n) ==
    IF n = 0 THEN {<<>>}
    ELSE LET shorter == LexemeSeqs(alphabet, n - 1)
         IN  shorter \cup {Append(x, c) : x \in {y \in shorter : Len(y) = n - 1},
                                          c \in alphabet}

DecInit ==
    /\ pc = "decode"
    /\ dvalue \in {None}
                  \cup {Str(x) : x \in LexemeSeqs(TextLexemes, MaxTokens)}
                  \cup {Bytes(x) : x \in LexemeSeqs(TextLexemes \cup {T_xff}, MaxTokens)}
    /\ dres = None
    /\ RecIdle /\ KeyIdle /\ QryIdle /\ CollIdle /\ CliIdle /\ BldIdle /\ FnIdle

Decode ==
    /\ pc = "decode"
    /\ dres' = decode_json_value(dvalue)
    /\ pc' = "decode_done"
    /\ UNCHANGED <<fnVars, dvalue, recVars, keyVars, dbVars, collVars, cliVars, bldVars, qryVars>>

DecNext == Decode

SpecDecode == DecInit /\ [][DecNext]_vars

JsonTypes == {"obj", "arr", "str", "num", "bool"}

\* C8: decode_json_value never raises: for None, every bytes value and every
\* str value it returns None or a parsed JSON value, and it returns None for
\* None and for bytes that are not UTF-8
C8_DecoderNeverThrows ==
    pc = "decode_done" =>
        /\ dres.t # "exc"
        /\ dres = None \/ dres.t \in JsonTypes
        /\ dvalue = None => dres = None
        /\ (dvalue # None /\ \E i \in DOMAIN dvalue.v : dvalue.v[i] = T_xff) => dres = None

(***************************************************************************)
(* The cursorDiskKV table and the SQL that _query_cursordiskkv builds.     *)
(***************************************************************************)
MaxRows == 2      \* rows of cursorDiskKV, elements of the tracking list

\* a sqlite3.Row of "SELECT key, value"
Row(key, value) == [key |-> key, value |-> value]

\* a Python int where None is possible too
PyInt(n) == [t |-> "int", v |-> n]

\* bool(x) of a Python value
PyTruthy(x) ==
    CASE x.t = "None" -> FALSE
      [] x.t = "bool" -> x.v = "true"
      [] x.t = "num" -> x.v # "0"
      [] x.t = "int" -> x.v # 0
      [] OTHER -> x.v # <<>>

\* "key LIKE pat" of SQLite: % matches any run of characters, _ any one
\* character, any other character itself without regard to ASCII case
RECURSIVE Like(_, _, _, _)
Like(pat, i, s, j) ==
    IF i > Len(pat) THEN j > Len(s)
    ELSE IF pat[i] = "%" THEN \E n \in j..(Len(s) + 1) : Like(pat, i + 1, s, n)
    ELSE /\ j <= Len(s)
         /\ (pat[i] = "_" \/ LowerChar(pat[i]) = LowerChar(s[j]))
         /\ Like(pat, i + 1, s, j + 1)

\* the rows the WHERE clause keeps, in scan order
SqlWhere(rows, exact_match, param) ==
    SelectSeq(rows, LAMBDA r : IF exact_match THEN r.key = param
                               ELSE Like(param, 1, r.key, 1))

\* SqlLimitOffset with the two clauses applied in the other order
SqlLimitOffset_LimitFirst(rows, limit, offset) ==
    LET head == IF limit < 0 \/ limit >= Len(rows) THEN rows ELSE SubSeq(rows, 1, limit)
    IN  SubSeq(head, (IF offset < 0 THEN 0 ELSE offset) + 1, Len(head))

\* "LIMIT limit OFFSET offset" of SQLite: a negative limit is no limit, a
\* negative offset is no offset
SqlLimitOffset(rows, limit, offset) ==
    LET rest == SubSeq(rows, (IF offset < 0 THEN 0 ELSE offset) + 1, Len(rows))
    IN  IF limit < 0 \/ limit >= Len(rest) THEN rest ELSE SubSeq(rest, 1, limit)

(***************************************************************************)
(* parse_cursordiskkv_rows(rows, factory, key_parser, key_pattern).  No    *)
(* caller in the package passes key_parser, so the model leaves it None.   *)
(* A factory is named by the query that defines it.                        *)
(***************************************************************************)
K_composerId == <<"c","o","m","p","o","s","e","r","I","d">>
K_fileName == <<"f","i","l","e","N","a","m","e">>
K_fileExtension == <<"f","i","l","e","E","x","t","e","n","s","i","o","n">>
K_source == <<"s","o","u","r","c","e">>

\* key_parts.get(name) if key_parts else None
KeyPart(key_parts, name) ==
    IF PyTruthy(key_parts) /\ DictHas(key_parts.v, name)
    THEN DictGet(key_parts.v, name) ELSE None

\* the class whose from_dict the factory closure of the kind calls
ClassOf(factory) ==
    CASE factory = "bubbles" -> "BubbleConversation"
      [] factory = "checkpoints" -> "Checkpoint"
      [] factory = "message_contexts" -> "MessageRequestContext"
      [] factory = "composer_data" -> "ComposerData"

\* the factory closures of the four execute() methods: only the one of
\* BubbleQuery hands the parts of the key on
Factory(factory, data, key_parts) ==
    from_dict(ClassOf(factory), data,
              IF factory = "bubbles" THEN KeyPart(key_parts, K_bubble_id) ELSE None,
              IF factory = "bubbles" THEN KeyPart(key_parts, K_conversation_id) ELSE None)

Built(inst) == [status |-> "ok", exc |-> "", inst |-> inst]
Skipped(why) == [status |-> "skipped", exc |-> why, inst |-> None]
Caught(exc) == [status |-> "caught", exc |-> exc, inst |-> None]

\* results.append(factory(data, key_parts)), or the exception of the factory
AppendMade(made) ==
    IF made.status = "raised" THEN Caught(made.exc) ELSE Built(made.inst)

\* the try body from the parsed key on
MakeInstance(data, key_parts, factory) ==
    IF key_parts = ReError THEN Caught(key_parts.v)
    ELSE AppendMade(Factory(factory, data.v,
                            IF PyTruthy(key_parts) THEN key_parts ELSE None))

\* the try body from the decoded value on
ParseDecoded(data, key, factory, key_pattern) ==
    IF data.t = "exc" THEN Caught(data.v)
    ELSE IF data = None THEN Skipped("Failed to decode JSON")
    ELSE IF ~IsDict(data) THEN Skipped("Expected dict")
    ELSE MakeInstance(data,
                      IF PyTruthy(key_pattern)
                      THEN parse_key_pattern(key, key_pattern.v) ELSE None,
                      factory)

\* the body of the try statement for one row: the instance to append, the
\* reason of a "continue", or the exception that reaches "except Exception"
ParseRow(row, factory, key_pattern) ==
    ParseDecoded(decode_json_value(row.value), row.key, factory, key_pattern)

\* what one row adds to results
Kept(r) == IF r.status = "ok" THEN <<r.inst>> ELSE <<>>

\* what a call returns or raises; log lists the predicate calls made
Result(items, log) == [status |-> "ok", exc |-> "", items |-> items, log |-> log]
Raises(exc, log) == [status |-> "raised", exc |-> exc, items |-> <<>>, log |-> log]

\* the for loop over rows, from row i on, with results so far
RECURSIVE ParseRows(_, _, _, _, _)

\* ParseRows with the try statement around the loop rather than inside it
ParseRows_TryAroundLoop(rows, i, factory, key_pattern, results) ==
    IF i > Len(rows) THEN Result(results, <<>>)
    ELSE LET r == ParseRow(rows[i], factory, key_pattern)
         IN  IF r.status = "caught" THEN Raises(r.exc, <<>>)
             ELSE ParseRows(rows, i + 1, factory, key_pattern,
                            IF r.status = "ok" THEN Append(results, r.inst) ELSE results)

ParseRows(rows, i, factory, key_pattern, results) ==
    IF i > Len(rows) THEN Result(results, <<>>)
    ELSE ParseRows(rows, i + 1, factory, key_pattern,
                   results \o Kept(ParseRow(rows[i], factory, key_pattern)))

parse_cursordiskkv_rows(rows, factory, key_pattern) ==
    ParseRows(rows, 1, factory, key_pattern, <<>>)

\* _query_cursordiskkv(key_prefix, factory, key_pattern, None, filter_id,
\*                     limit, offset, exact_match) over the rows of the table
query_cursordiskkv(rows, key_prefix, factory, key_pattern, filter_id, limit, offset, exact_match) ==
    LET param == IF PyTruthy(filter_id)
                 THEN (IF exact_match THEN key_prefix \o filter_id.v
                       ELSE key_prefix \o filter_id.v \o <<":", "%">>)
                 ELSE (IF exact_match THEN key_prefix ELSE key_prefix \o <<"%">>)
        matched == SqlWhere(rows, exact_match, param)
        fetched == IF PyTruthy(limit) THEN SqlLimitOffset(matched, limit.v, offset)
                   ELSE matched
    IN  parse_cursordiskkv_rows(fetched, factory, key_pattern)

(***************************************************************************)
(* get_ai_code_tracking_entries and the grouping into composer sessions.   *)
(***************************************************************************)
\* what the try statement around cls.from_dict leaves of one element:
\* KeyError and TypeError are passed over
EntryOf(made) ==
    IF made.status = "raised" /\ made.exc \in {"KeyError", "TypeError"}
    THEN <<>> ELSE <<made.inst>>

\* the elements of data from element i on that are dicts with a "hash"
RECURSIVE TrackingEntries(_, _)
TrackingEntries(data, i) ==
    IF i > Len(data) THEN <<>>
    ELSE (IF IsDict(data[i])
          THEN EntryOf(from_dict("AICodeTrackingEntry", data[i].v, None, None))
          ELSE <<>>)
         \o TrackingEntries(data, i + 1)

\* value is what get_value finds under aiCodeTrackingLines
get_ai_code_tracking_entries(value) ==
    LET data == decode_json_value(value) IN
    IF data.t = "exc" THEN Raises(data.v, <<>>)
    ELSE IF data.t # "arr" THEN Result(<<>>, <<>>)
    ELSE Result(TrackingEntries(data.v, 1), <<>>)

\* hash(x) succeeds
Hashable(x) == x.t \notin {"arr", "obj"}

\* entry.metadata.get(name), metadata being a dict
MetadataGet(entry, name) ==
    IF DictHas(entry.fields["metadata"].v, name)
    THEN DictGet(entry.fields["metadata"].v, name) ELSE None

\* the loop that fills sessions_dict, from entry i on: the dict as a
\* sequence of <<composer_id, entries>> in insertion order, or the
\* exception the loop raises
RECURSIVE GroupByComposer(_, _, _)
GroupByComposer(entries, i, sessions_dict) ==
    IF i > Len(entries) THEN [exc |-> "", dict |-> sessions_dict]
    ELSE IF ~IsDict(entries[i].fields["metadata"])
    THEN [exc |-> "AttributeError", dict |-> <<>>]
    ELSE LET composer_id == MetadataGet(entries[i], K_composerId) IN
         IF ~PyTruthy(composer_id)
         THEN GroupByComposer(entries, i + 1, sessions_dict)
         ELSE IF ~Hashable(composer_id) THEN [exc |-> "TypeError", dict |-> <<>>]
         ELSE GroupByComposer(entries, i + 1,
                  DictSet(sessions_dict, composer_id,
                          Append(IF DictHas(sessions_dict, composer_id)
                                 THEN DictGet(sessions_dict, composer_id)
                                 ELSE <<>>,
                                 entries[i])))

\* set(e.<name> for e in entries if e.<name>): a set, so that the order
\* list() gives the elements in is left open
MetadataSet(entries, name) ==
    {MetadataGet(entries[i], name) :
        i \in {j \in DOMAIN entries : PyTruthy(MetadataGet(entries[j], name))}}

\* ComposerSession.from_entries(composer_id, entries)
ComposerSession_from_entries(composer_id, entries) ==
    IF \E x \in MetadataSet(entries, K_fileName)
                \cup MetadataSet(entries, K_fileExtension) : ~Hashable(x)
    THEN Raised("TypeError", entries)
    ELSE Returned([kind |-> "ComposerSession",
                   fields |-> [composer_id |-> composer_id,
                               files_modified |-> MetadataSet(entries, K_fileName),
                               file_extensions |-> MetadataSet(entries, K_fileExtension),
                               entries_count |-> Len(entries)]],
                  entries)

\* the list comprehension over sessions_dict.items(), from item i on
RECURSIVE SessionsOf(_, _, _)
SessionsOf(sessions_dict, i, sessions) ==
    IF i > Len(sessions_dict) THEN Result(sessions, <<>>)
    ELSE LET made == ComposerSession_from_entries(sessions_dict[i][1],
                                                  sessions_dict[i][2])
         IN  IF made.status = "raised" THEN Raises(made.exc, <<>>)
             ELSE SessionsOf(sessions_dict, i + 1, Append(sessions, made.inst))

\* the sessions of the filled sessions_dict
SessionsOfGrouped(grouped) ==
    IF grouped.exc # "" THEN Raises(grouped.exc, <<>>)
    ELSE SessionsOf(grouped.dict, 1, <<>>)

\* the sessions of the entries the client returned, or what it raised
SessionsOfEntries(entries) ==
    IF entries.status = "raised" THEN entries
    ELSE SessionsOfGrouped(GroupByComposer(entries.items, 1, <<>>))

(***************************************************************************)
(* Predicates a caller passes to filter().  The code only calls them; the  *)
(* model has two, told apart by one attribute of the item.                 *)
(***************************************************************************)
MarkA == JStr(<<"a">>)
MarkB == JStr(<<"b">>)

Mark(item) ==
    CASE item.kind \in {"BubbleConversation", "ComposerData"} -> item.fields["text"]
      [] item.kind = "Checkpoint" -> item.fields["files"]
      [] item.kind = "MessageRequestContext" -> item.fields["todos"]
      [] item.kind = "AICodeTrackingEntry" -> MetadataGet(item, K_source)
      [] item.kind = "ComposerSession" -> item.fields.composer_id

Predicates == {"is_a", "raise_on_b"}

\* predicate(item): "true", "false", or the name of the exception raised;
\* reading the attribute of a tracking entry whose metadata is no dict
\* raises AttributeError
Call(predicate, item) ==
    IF item.kind = "AICodeTrackingEntry" /\ ~IsDict(item.fields["metadata"])
    THEN "AttributeError"
    ELSE CASE predicate = "is_a" -> IF Mark(item) = MarkA THEN "true" ELSE "false"
           [] predicate = "raise_on_b" ->
                  IF Mark(item) = MarkB THEN "ValueError" ELSE "true"

\* [x for x in items if predicate(x)] from item i on; an exception of
\* the predicate ends the comprehension and leaves it
RECURSIVE Comprehension(_, _, _, _, _)

\* Comprehension with the predicate call wrapped in try/except: an item
\* whose predicate raises is dropped
Comprehension_SkipOnError(items, predicate, i, kept, log) ==
    IF i > Len(items) THEN Result(kept, log)
    ELSE LET out == Call(predicate, items[i])
             log2 == Append(log, <<predicate, out>>)
         IN  Comprehension(items, predicate, i + 1,
                           IF out = "true" THEN Append(kept, items[i]) ELSE kept, log2)

Comprehension(items, predicate, i, kept, log) ==
    IF i > Len(items) THEN Result(kept, log)
    ELSE LET out == Call(predicate, items[i])
             log2 == Append(log, <<predicate, out>>)
         IN  IF out = "true"
             THEN Comprehension(items, predicate, i + 1, Append(kept, items[i]), log2)
             ELSE IF out = "false"
             THEN Comprehension(items, predicate, i + 1, kept, log2)
             ELSE Raises(out, log2)

\* "for filter_func in self._filters: items = [...]", from filter j on
RECURSIVE ApplyFilters(_, _, _, _)
ApplyFilters(items, filters, j, log) ==
    IF j > Len(filters) THEN Result(items, log)
    ELSE LET r == Comprehension(items, filters[j], 1, <<>>, log)
         IN  IF r.status = "raised" THEN r
             ELSE ApplyFilters(r.items, filters, j + 1, r.log)

\* Collection.filter(predicate) on a collection of items
Collection_filter(items, predicate) == Comprehension(items, predicate, 1, <<>>, <<>>)

(***************************************************************************)
(* The execute() methods of query.py.                                      *)
(***************************************************************************)
KvKinds == {"bubbles", "checkpoints", "message_contexts", "composer_data"}
QueryKinds == KvKinds \cup {"tracking_entries", "composer_sessions"}

\* the kinds whose execute() returns a Collection rather than a list
CollectionKinds == {"bubbles", "tracking_entries", "composer_sessions"}

KeyPrefix(kind) ==
    CASE kind = "bubbles" -> <<"b","u","b","b","l","e","I","d",":">>
      [] kind = "checkpoints" -> <<"c","h","e","c","k","p","o","i","n","t","I","d",":">>
      [] kind = "message_contexts" ->
             <<"m","e","s","s","a","g","e","R","e","q","u","e","s","t",
               "C","o","n","t","e","x","t",":">>
      [] kind = "composer_data" -> <<"c","o","m","p","o","s","e","r","D","a","t","a",":">>

KeyPattern(kind) ==
    CASE kind = "bubbles" ->
             JStr(<<"b","u","b","b","l","e","I","d",":",
                    "{","b","u","b","b","l","e","_","i","d","}",":",
                    "{","c","o","n","v","e","r","s","a","t","i","o","n","_","i","d","}">>)
      [] kind = "checkpoints" ->
             JStr(<<"c","h","e","c","k","p","o","i","n","t","I","d",":",
                    "{","b","u","b","b","l","e","_","i","d","}",":",
                    "{","c","h","e","c","k","p","o","i","n","t","_","i","d","}">>)
      [] OTHER -> None

\* items[offset:] when offset > 0, then items[:limit] when limit is truthy
Paginate(items, limit, offset) ==
    LET rest == IF offset > 0 THEN SubSeq(items, offset + 1, Len(items)) ELSE items
    IN  IF ~PyTruthy(limit) THEN rest
        ELSE IF limit.v >= 0 THEN SubSeq(rest, 1, Min({limit.v, Len(rest)}))
        ELSE SubSeq(rest, 1, Len(rest) + limit.v)

\* KvQuery_execute with the predicates applied to every record of the kind
\* and the page cut from what they keep
KvQuery_execute_FilterFirst(kind, rows, limit, offset, filters, id) ==
    LET got == query_cursordiskkv(rows, KeyPrefix(kind), kind, KeyPattern(kind), id,
                                  None, 0, kind = "composer_data" /\ id # None)
        kept == ApplyFilters(got.items, filters, 1, <<>>)
    IN  IF kept.status = "raised" THEN kept
        ELSE Result(Paginate(kept.items, limit, offset), kept.log)

\* BubbleQuery, CheckpointQuery, MessageContextQuery, ComposerDataQuery
KvQuery_execute(kind, rows, limit, offset, filters, id) ==
    LET got == query_cursordiskkv(rows, KeyPrefix(kind), kind, KeyPattern(kind), id,
                                  limit, offset, kind = "composer_data" /\ id # None)
    IN  ApplyFilters(got.items, filters, 1, <<>>)

\* the slices and the filter loop of TrackingQuery and ComposerSessionQuery
\* on what the client returned or raised
SliceAndFilter(got, limit, offset, filters) ==
    IF got.status = "raised" THEN got
    ELSE ApplyFilters(Paginate(got.items, limit, offset), filters, 1, <<>>)

TrackingQuery_execute(value, limit, offset, filters) ==
    SliceAndFilter(get_ai_code_tracking_entries(value), limit, offset, filters)

ComposerSessionQuery_execute(value, limit, offset, filters) ==
    SliceAndFilter(SessionsOfEntries(get_ai_code_tracking_entries(value)),
                   limit, offset, filters)

execute(kind, rows, value, limit, offset, filters, id) ==
    CASE kind \in KvKinds -> KvQuery_execute(kind, rows, limit, offset, filters, id)
      [] kind = "tracking_entries" -> TrackingQuery_execute(value, limit, offset, filters)
      [] kind = "composer_sessions" ->
             ComposerSessionQuery_execute(value, limit, offset, filters)

(***************************************************************************)
(* The stored data of the model: a few rows per kind, a few list elements. *)
(***************************************************************************)
\* the text of {"member": "value"}
ObjText(member, value) ==
    <<Punct("{"), StrLit(member), Punct(":"), StrLit(value), Punct("}")>>

\* the payload member the predicates of the model look at
MarkerMember(kind) ==
    CASE kind \in {"bubbles", "composer_data"} -> <<"t","e","x","t">>
      [] kind = "checkpoints" -> <<"f","i","l","e","s">>
      [] kind = "message_contexts" -> <<"t","o","d","o","s">>

\* three rows of the kind that build a record, one whose payload has an
\* undeclared member, one of another kind
RowPool(kind) ==
    {Row(KeyPrefix(kind) \o <<"b","1",":","c","1">>, Str(ObjText(MarkerMember(kind), <<"a">>))),
     Row(KeyPrefix(kind) \o <<"b","1",":","c","2">>, Str(ObjText(MarkerMember(kind), <<"b">>))),
     Row(KeyPrefix(kind) \o <<"b","2",":","c","1">>, Str(ObjText(MarkerMember(kind), <<"a">>))),
     Row(KeyPrefix(kind) \o <<"b","2",":","c","2">>, Str(ObjText(<<"z","z">>, <<"a">>))),
     Row(<<"o","t","h","e","r",":","b","1",":","c","1">>,
         Str(ObjText(MarkerMember(kind), <<"a">>)))}

\* the text of n arrays, each inside the one before
RECURSIVE Nested(_)
Nested(n) ==
    IF n = 0 THEN <<>> ELSE <<Punct("[")>> \o Nested(n - 1) \o <<Punct("]")>>

\* rows whose value is no JSON, no object, or nested too deep to parse
BrokenRows(kind) ==
    {Row(KeyPrefix(kind) \o <<"b","3",":","c","1">>, Str(<<Punct("{"), T_garbage>>)),
     Row(KeyPrefix(kind) \o <<"b","3",":","c","2">>, Str(<<Punct("["), NumLit("1"), Punct("]")>>)),
     Row(KeyPrefix(kind) \o <<"b","3",":","c","3">>,
         Bytes(<<Punct("{"), StrLit(MarkerMember(kind)), Punct(":")>>
               \o Nested(RecursionLimit) \o <<Punct("}")>>))}

\* the sequences of at most n rows of pool, no key twice (key is PRIMARY KEY)
RECURSIVE Tables(_, _)
Tables(pool, n) ==
    IF n = 0 THEN {<<>>}
    ELSE LET shorter == Tables(pool, n - 1)
             longest == {t \in shorter : Len(t) = n - 1}
         IN  shorter \cup
             {Append(p[1], p[2]) :
                 p \in {q \in longest \X pool :
                           \A i \in DOMAIN q[1] : q[1][i].key # q[2].key}}

\* the text of {"hash": hash, "metadata": {"source": source, "composerId": id}};
\* an empty hash or id leaves the member out
EntryText(hash, source, id) ==
    <<Punct("{")>>
    \o (IF hash = <<>> THEN <<>> ELSE <<StrLit(K_hash), Punct(":"), StrLit(hash), Punct(",")>>)
    \o <<StrLit(K_metadata), Punct(":"), Punct("{"), StrLit(K_source), Punct(":"), StrLit(source)>>
    \o (IF id = <<>> THEN <<>> ELSE <<Punct(","), StrLit(K_composerId), Punct(":"), StrLit(id)>>)
    \o <<Punct("}"), Punct("}")>>

EntryPool ==
    {EntryText(<<"h","1">>, <<"a">>, <<"a">>), EntryText(<<"h","2">>, <<"b">>, <<"b">>),
     EntryText(<<"h","3">>, <<"a">>, <<"a">>), EntryText(<<"h","4">>, <<"b">>, <<"c">>),
     EntryText(<<"h","5">>, <<"a">>, <<>>), EntryText(<<>>, <<"a">>, <<"a">>)}

\* the sequences of at most n elements of pool, no element twice
RECURSIVE Lists(_, _)
Lists(pool, n) ==
    IF n = 0 THEN {<<>>}
    ELSE LET shorter == Lists(pool, n - 1)
             longest == {l \in shorter : Len(l) = n - 1}
         IN  shorter \cup
             {Append(p[1], p[2]) :
                 p \in {q \in longest \X pool : \A i \in DOMAIN q[1] : q[1][i] # q[2]}}

\* the text of a JSON array of the elements
RECURSIVE Commas(_)
Commas(elements) ==
    IF elements = <<>> THEN <<>>
    ELSE IF Len(elements) = 1 THEN elements[1]
    ELSE elements[1] \o <<Punct(",")>> \o Commas(Tail(elements))

ListText(elements) == <<Punct("[")>> \o Commas(elements) \o <<Punct("]")>>

\* what ItemTable can hold under aiCodeTrackingLines: nothing, an object,
\* or a list of at most MaxRows elements, no element twice
TrackingValues ==
    {None, Bytes(<<Punct("{"), Punct("}")>>)}
    \cup {Bytes(ListText(l)) : l \in Lists(EntryPool, MaxRows)}

(***************************************************************************)
(* Specification SpecQuery: a query is built call by call, executed, and   *)
(* the collection it returns is filtered once more.                        *)
(***************************************************************************)
\* the arguments the model passes to limit(), offset() and page()
LimitArgs == {0, 1, 2}
OffsetArgs == {0, 1, 2}
PageNums == {1, 2}
PageSizes == {1, 2}
IdsOf(kind) ==
    IF kind = "composer_data" THEN {JStr(<<"b","1",":","c","1">>)}
    ELSE IF kind \in KvKinds THEN {JStr(<<"b","1">>)}
    ELSE {}

QryInit ==
    /\ pc = "build"
    /\ qkind \in QueryKinds
    /\ IF qkind \in KvKinds
       THEN table \in Tables(RowPool(qkind), MaxRows) /\ tracking = None
       ELSE table = <<>> /\ tracking \in TrackingValues
    /\ qlimit = None /\ qoffset = 0 /\ qfilters = <<>> /\ qid = None
    /\ qres = None /\ cres = None
    /\ RecIdle /\ KeyIdle /\ DecIdle /\ CollIdle /\ CliIdle /\ BldIdle /\ FnIdle

\* BaseQuery.limit(n)
Limit ==
    /\ pc = "build"
    /\ \E n \in LimitArgs : qlimit' = PyInt(n)
    /\ UNCHANGED <<fnVars, pc, recVars, keyVars, decVars, dbVars, collVars, cliVars, bldVars,
                   qkind, qoffset, qfilters, qid, qres, cres>>

\* BaseQuery.offset(n)
Offset ==
    /\ pc = "build"
    /\ \E n \in OffsetArgs : qoffset' = n
    /\ UNCHANGED <<fnVars, pc, recVars, keyVars, decVars, dbVars, collVars, cliVars, bldVars,
                   qkind, qlimit, qfilters, qid, qres, cres>>

\* BaseQuery.page(page_num, page_size)
Page ==
    /\ pc = "build"
    /\ \E page_num \in PageNums, page_size \in PageSizes :
           /\ qoffset' = (page_num - 1) * page_size
           /\ qlimit' = PyInt(page_size)
    /\ UNCHANGED <<fnVars, pc, recVars, keyVars, decVars, dbVars, collVars, cliVars, bldVars,
                   qkind, qfilters, qid, qres, cres>>

\* BaseQuery.filter(predicate), each predicate added at most once
Filter ==
    /\ pc = "build"
    /\ \E predicate \in Predicates :
           /\ \A i \in DOMAIN qfilters : qfilters[i] # predicate
           /\ qfilters' = Append(qfilters, predicate)
    /\ UNCHANGED <<fnVars, pc, recVars, keyVars, decVars, dbVars, collVars, cliVars, bldVars,
                   qkind, qlimit, qoffset, qid, qres, cres>>

\* filter_by_bubble_id(bubble_id), filter_by_composer_id(composer_id)
FilterById ==
    /\ pc = "build"
    /\ \E id \in IdsOf(qkind) : qid' = id
    /\ UNCHANGED <<fnVars, pc, recVars, keyVars, decVars, dbVars, collVars, cliVars, bldVars,
                   qkind, qlimit, qoffset, qfilters, qres, cres>>

\* execute() that uses up the pagination it applied
Execute_ConsumesPagination ==
    /\ pc = "build"
    /\ qres' = execute(qkind, table, tracking, qlimit, qoffset, qfilters, qid)
    /\ pc' = "executed"
    /\ qlimit' = None /\ qoffset' = 0
    /\ UNCHANGED <<fnVars, recVars, keyVars, decVars, dbVars, collVars, cliVars, bldVars,
                   qkind, qfilters, qid, cres>>

\* execute() of the query kind
Execute ==
    /\ pc = "build"
    /\ qres' = execute(qkind, table, tracking, qlimit, qoffset, qfilters, qid)
    /\ pc' = "executed"
    /\ UNCHANGED <<fnVars, recVars, keyVars, decVars, dbVars, collVars, cliVars, bldVars,
                   qkind, qlimit, qoffset, qfilters, qid, cres>>

\* Collection.filter(predicate) on the collection execute() returned
FilterResult ==
    /\ pc = "executed"
    /\ qkind \in CollectionKinds
    /\ qres.status = "ok"
    /\ \E predicate \in Predicates : cres' = Collection_filter(qres.items, predicate)
    /\ pc' = "filtered"
    /\ UNCHANGED <<fnVars, recVars, keyVars, decVars, dbVars, collVars, cliVars, bldVars,
                   qkind, qlimit, qoffset, qfilters, qid, qres>>

\* execute() called a second time on the builder that was just executed
ExecuteAgain ==
    /\ pc = "executed"
    /\ qagain' = execute(qkind, table, tracking, qlimit, qoffset, qfilters, qid)
    /\ pc' = "executed_again"
    /\ UNCHANGED <<fnVars, recVars, keyVars, decVars, dbVars, collVars, cliVars, calls, qryVars>>

QryNext ==
    \/ Limit \/ Offset \/ Page \/ Filter \/ FilterById \/ Execute \/ FilterResult
    \/ ExecuteAgain

SpecQuery == QryInit /\ [][QryNext]_vars

(***************************************************************************)
(* Specification SpecParse: parse_cursordiskkv_rows on a sequence of rows, *)
(* with the factory and key pattern of one of the four queries.            *)
(***************************************************************************)
ParseInit ==
    /\ pc = "parse"
    /\ qkind \in KvKinds
    /\ table \in Tables(RowPool(qkind) \cup BrokenRows(qkind), MaxRows)
    /\ tracking = None
    /\ qlimit = None /\ qoffset = 0 /\ qfilters = <<>> /\ qid = None
    /\ qres = None /\ cres = None
    /\ RecIdle /\ KeyIdle /\ DecIdle /\ CollIdle /\ CliIdle /\ BldIdle /\ FnIdle

ParseCall ==
    /\ pc = "parse"
    /\ qres' = parse_cursordiskkv_rows(table, qkind, KeyPattern(qkind))
    /\ pc' = "parsed"
    /\ UNCHANGED <<fnVars, recVars, keyVars, decVars, dbVars, collVars, cliVars, bldVars,
                   qkind, qlimit, qoffset, qfilters, qid, cres>>

ParseNext == ParseCall

SpecParse == ParseInit /\ [][ParseNext]_vars

(***************************************************************************)
(* Claims about parse_cursordiskkv_rows.                                   *)
(***************************************************************************)
\* the key parts the factory of the kind receives for the row
KeyPartsOf(kind, row) ==
    IF KeyPattern(kind) = None THEN None
    ELSE parse_key_pattern(row.key, KeyPattern(kind).v)

\* what the factory of the kind makes of the row's decoded value
MadeFrom(kind, row) ==
    LET key_parts == KeyPartsOf(kind, row)
    IN  Factory(kind, decode_json_value(row.value).v,
                IF PyTruthy(key_parts) THEN key_parts ELSE None)

\* the value decodes to a JSON object and the factory returns an instance
GoodRow(kind, row) ==
    /\ decode_json_value(row.value).t = "obj"
    /\ KeyPartsOf(kind, row) # ReError
    /\ MadeFrom(kind, row).status = "ok"

\* the instances of the good rows among rows, in row order
InstancesOf(kind, rows) ==
    LET good == SelectSeq(rows, LAMBDA r : GoodRow(kind, r))
    IN  [i \in 1..Len(good) |-> MadeFrom(kind, good[i]).inst]

\* C6: parse_cursordiskkv_rows never raises because of a row; it returns
\* exactly the instances built from the rows whose value decodes to a JSON
\* object and whose factory returns an instance without raising, in row
\* order, so every row after a failing row is still processed.
C6_BadRowsSkipped ==
    pc = "parsed" =>
        /\ qres.status = "ok"
        /\ qres.items = InstancesOf(qkind, table)

\* a failing row (broken value or raising factory) is followed by a good
\* row, whose instance is returned
C6_Witness ==
    /\ pc = "parsed"
    /\ qres.status = "ok"
    /\ qres.items # <<>>
    /\ \E i, j \in DOMAIN table :
           /\ i < j
           /\ ~GoodRow(qkind, table[i])
           /\ decode_json_value(table[i].value).t \in {"exc", "obj"}
           /\ GoodRow(qkind, table[j])

(***************************************************************************)
(* Claims about execute().                                                 *)
(***************************************************************************)
Executed == pc = "executed"

\* every record of the kind the query addresses, in storage order: what
\* the query returns with no limit, no offset and no predicate
Dataset == execute(qkind, table, tracking, None, 0, <<>>, qid).items

HasPrefix(s, p) == Len(s) >= Len(p) /\ SubSeq(s, 1, Len(p)) = p

\* every stored row of the kind builds a record
Constructible ==
    qkind \in KvKinds =>
        \A i \in DOMAIN table :
            HasPrefix(table[i].key, KeyPrefix(qkind)) => GoodRow(qkind, table[i])

\* how many items a page of L items after O items has in N items
PageSize(L, O, N) == Max({0, Min({L, N - O})})

\* rows O .. O+L-1 of the dataset (0-based), in their order
RowsOfPage(dataset, L, O) == SubSeq(dataset, O + 1, O + PageSize(L, O, Len(dataset)))

Satisfies(item) == \A i \in DOMAIN qfilters : Call(qfilters[i], item) = "true"

\* the paginated row set: what limit and offset alone select
Paginated == execute(qkind, table, tracking, qlimit, qoffset, <<>>, qid)

\* C4: execute() returns exactly the items of the paginated row set (the
\* rows limit and offset alone select) that satisfy all registered
\* predicates, in their order; predicates do not influence which rows
\* pagination selects.
C4_PaginationPrecedesPredicates ==
    (Executed /\ qres.status = "ok") =>
        qres.items = SelectSeq(Paginated.items, Satisfies)

\* a query with limit L returns fewer than L items although a record
\* beyond the page satisfies the predicates
C4_Witness ==
    /\ Executed /\ qres.status = "ok"
    /\ qfilters # <<>> /\ qlimit # None /\ qlimit.v >= 1
    /\ Len(qres.items) < qlimit.v
    /\ LET dataset == Dataset
       IN  \E i \in DOMAIN dataset : i > qoffset + qlimit.v /\ Satisfies(dataset[i])

\* C5: for a bubble query on which offset(n) was called and limit never,
\* execute() skips the first n matching rows, and returns an empty
\* collection when n is at least the number of matching rows.
C5_OffsetWithoutLimit ==
    (Executed /\ qkind = "bubbles" /\ qlimit = None /\ qfilters = <<>>) =>
        LET dataset == Dataset IN
        /\ qres.status = "ok"
        /\ qres.items = SubSeq(dataset, qoffset + 1, Len(dataset))

\* an exception of a predicate call recorded in the log of a call
RaisedIn(log) == {log[i][2] : i \in {j \in DOMAIN log : log[j][2] \notin {"true", "false"}}}

\* C7: whenever a caller-supplied predicate raises while being evaluated on
\* an item, execute() of every query kind and Collection.filter propagate
\* that exception and return no partial result.
C7_PredicateErrorsFatal ==
    /\ Executed =>
          \A exc \in RaisedIn(qres.log) :
              qres.status = "raised" /\ qres.exc = exc /\ qres.items = <<>>
    /\ pc = "filtered" =>
          \A exc \in RaisedIn(cres.log) :
              cres.status = "raised" /\ cres.exc = exc /\ cres.items = <<>>

\* a predicate raises on an item after it has accepted an earlier one
C7_Witness ==
    /\ Executed
    /\ qres.status = "raised"
    /\ \E i, j \in DOMAIN qres.log :
           i < j /\ qres.log[i][2] = "true" /\ qres.log[j][2] = "ValueError"

(***************************************************************************)
(* The Collection class of collections.py.  A collection holds a Python    *)
(* list by reference; heap gives the content of every list by identity.    *)
(***************************************************************************)
MaxItems == 3    \* items of the list a collection is built on
MaxLists == 2    \* list objects alive at once

\* a ComposerSession, the item of a ComposerSessionCollection
Session(id, n) ==
    [kind |-> "ComposerSession",
     fields |-> [composer_id |-> JStr(id), files_modified |-> {},
                 file_extensions |-> {}, entries_count |-> n]]

ItemPool == {Session(<<"a">>, 1), Session(<<"a">>, 2), Session(<<"b">>, 1)}

\* the lists over ItemPool of at most n items
RECURSIVE ItemLists(_)
ItemLists(n) ==
    IF n = 0 THEN {<<>>}
    ELSE LET shorter == ItemLists(n - 1)
         IN  shorter \cup {Append(l, x) : l \in {m \in shorter : Len(m) = n - 1},
                                          x \in ItemPool}

\* the functions a caller passes as key, func or key_func: attribute getters
KeyFuncs == {"composer_id", "entries_count"}
KeyOf(func, item) ==
    IF func = "composer_id" THEN item.fields.composer_id
    ELSE PyInt(item.fields.entries_count)

\* a < b for two str
RECURSIVE StrLess(_, _)
StrLess(a, b) ==
    IF b = <<>> THEN FALSE
    ELSE IF a = <<>> THEN TRUE
    ELSE IF a[1] = b[1] THEN StrLess(Tail(a), Tail(b))
    ELSE IndexOf(LowerSeq, a[1]) < IndexOf(LowerSeq, b[1])

\* a < b for two keys of one key function
KeyLess(a, b) == IF a.t = "int" THEN a.v < b.v ELSE StrLess(a.v, b.v)

\* x sorts strictly before y
Before(x, y, key, reverse) ==
    IF reverse THEN KeyLess(KeyOf(key, y), KeyOf(key, x))
    ELSE KeyLess(KeyOf(key, x), KeyOf(key, y))

\* x put into a sorted list behind every item it does not sort before
Insert(sorted, x, key, reverse) ==
    LET later == {j \in DOMAIN sorted : Before(x, sorted[j], key, reverse)}
    IN  IF later = {} THEN Append(sorted, x)
        ELSE SubSeq(sorted, 1, Min(later) - 1) \o <<x>>
             \o SubSeq(sorted, Min(later), Len(sorted))

\* sorted(items, key=key, reverse=reverse) for a key function: stable
RECURSIVE Sorted(_, _, _, _, _)
Sorted(items, key, reverse, i, sorted) ==
    IF i > Len(items) THEN sorted
    ELSE Sorted(items, key, reverse, i + 1, Insert(sorted, items[i], key, reverse))

\* what a method returns or raises
Ok(value) == [status |-> "ok", exc |-> "", value |-> value]
Fail(exc) == [status |-> "raised", exc |-> exc, value |-> <<>>]

\* the list comprehension of filter, as the outcome of the method
Filtered(r) == IF r.status = "raised" THEN Fail(r.exc) ELSE Ok(r.items)

\* sort(key, reverse): without a key the items themselves are compared,
\* and a dataclass without order=True has no "<"
Collection_sort(items, key, reverse) ==
    IF key = "None"
    THEN (IF Len(items) >= 2 THEN Fail("TypeError") ELSE Ok(items))
    ELSE Ok(Sorted(items, key, reverse, 1, <<>>))

Collection_map(items, func) == Ok([i \in DOMAIN items |-> KeyOf(func, items[i])])

\* the loop of group_by from item i on: groups as <<key, items>> pairs in
\* the insertion order of the dict
RECURSIVE GroupsFrom(_, _, _, _)
GroupsFrom(items, key_func, i, groups) ==
    IF i > Len(items) THEN groups
    ELSE GroupsFrom(items, key_func, i + 1,
             DictSet(groups, KeyOf(key_func, items[i]),
                     Append(IF DictHas(groups, KeyOf(key_func, items[i]))
                            THEN DictGet(groups, KeyOf(key_func, items[i]))
                            ELSE <<>>,
                            items[i])))

\* Collection_group_by with "groups[key] = [item]" for "groups[key].append(item)"
Collection_group_by_Overwrite(items, key_func) ==
    Ok([i \in DOMAIN GroupsFrom(items, key_func, 1, <<>>) |->
           <<GroupsFrom(items, key_func, 1, <<>>)[i][1],
             <<GroupsFrom(items, key_func, 1, <<>>)[i][2][
                 Len(GroupsFrom(items, key_func, 1, <<>>)[i][2])]>> >>])

Collection_group_by(items, key_func) == Ok(GroupsFrom(items, key_func, 1, <<>>))

\* items[:n] and items[n:] of Python, n of either sign
SliceTo(items, n) ==
    IF n >= 0 THEN SubSeq(items, 1, Min({n, Len(items)}))
    ELSE SubSeq(items, 1, Len(items) + n)
SliceFrom(items, n) ==
    IF n >= 0 THEN SubSeq(items, n + 1, Len(items))
    ELSE SubSeq(items, Max({Len(items) + n, 0}) + 1, Len(items))

Collection_take(items, n) == Ok(SliceTo(items, n))

\* Collection_skip with the slice one item late
Collection_skip_OneLate(items, n) == Ok(SliceFrom(items, n + 1))

Collection_skip(items, n) == Ok(SliceFrom(items, n))

\* an item as a return value (None is the other one)
Some(item) == [t |-> "item", v |-> item]

Collection_first(items) == Ok(IF items # <<>> THEN Some(items[1]) ELSE None)
Collection_last(items) == Ok(IF items # <<>> THEN Some(items[Len(items)]) ELSE None)

\* any(predicate(item) for item in items) from item i on: stops at the
\* first item the predicate accepts
RECURSIVE AnyFrom(_, _, _)
AnyFrom(items, predicate, i) ==
    IF i > Len(items) THEN Ok(FALSE)
    ELSE IF Call(predicate, items[i]) = "true" THEN Ok(TRUE)
    ELSE IF Call(predicate, items[i]) = "false" THEN AnyFrom(items, predicate, i + 1)
    ELSE Fail(Call(predicate, items[i]))

Collection_any(items, predicate) ==
    IF predicate = "None" THEN Ok(Len(items) > 0) ELSE AnyFrom(items, predicate, 1)

\* all(predicate(item) for item in items) from item i on: stops at the
\* first item the predicate rejects
RECURSIVE AllFrom(_, _, _)
AllFrom(items, predicate, i) ==
    IF i > Len(items) THEN Ok(TRUE)
    ELSE IF Call(predicate, items[i]) = "false" THEN Ok(FALSE)
    ELSE IF Call(predicate, items[i]) = "true" THEN AllFrom(items, predicate, i + 1)
    ELSE Fail(Call(predicate, items[i]))

Collection_all(items, predicate) == AllFrom(items, predicate, 1)

\* the outcome of the method op called with arg on a collection of items
Outcome(items, op, arg) ==
    CASE op = "filter" -> Filtered(Collection_filter(items, arg))
      [] op = "sort" -> Collection_sort(items, arg.key, arg.reverse)
      [] op = "map" -> Collection_map(items, arg)
      [] op = "group_by" -> Collection_group_by(items, arg)
      [] op = "take" -> Collection_take(items, arg)
      [] op = "skip" -> Collection_skip(items, arg)
      [] op = "first" -> Collection_first(items)
      [] op = "last" -> Collection_last(items)
      [] op = "any" -> Collection_any(items, arg)
      [] op = "all" -> Collection_all(items, arg)

\* Collection_call with sort written as self._items.sort(key, reverse)
Collection_call_SortInPlace(items, op, arg) ==
    [self |-> IF op = "sort" /\ Outcome(items, op, arg).status = "ok"
              THEN Outcome(items, op, arg).value ELSE items,
     out |-> Outcome(items, op, arg)]

\* a method call on a collection whose _items is items: what the list is
\* afterwards and what the call returned; every method builds a new list
\* or a plain value from self._items and assigns nothing
Collection_call(items, op, arg) == [self |-> items, out |-> Outcome(items, op, arg)]

Called(op, arg, out) == [t |-> op, v |-> [arg |-> arg, out |-> out]]

(***************************************************************************)
(* Specification SpecColl: a caller builds a collection on a list, calls   *)
(* its methods, and in the end changes one of the lists it holds.          *)
(***************************************************************************)
SliceArgs == -1..(MaxItems + 1)
SortArgs == [key : KeyFuncs \cup {"None"}, reverse : BOOLEAN]

\* Collection(items) on a list the caller keeps
CollInit ==
    /\ pc = "coll"
    /\ heap \in {<<l>> : l \in ItemLists(MaxItems)}
    /\ c_items = 1
    /\ held = {<<1, "constructor">>}
    /\ c_out = None
    /\ RecIdle /\ KeyIdle /\ DecIdle /\ QryIdle /\ CliIdle /\ BldIdle /\ FnIdle

Method(op, arg) ==
    /\ pc = "coll"
    /\ heap' = [heap EXCEPT ![c_items] = Collection_call(heap[c_items], op, arg).self]
    /\ c_out' = Called(op, arg, Collection_call(heap[c_items], op, arg).out)
    /\ UNCHANGED <<fnVars, pc, c_items, held, recVars, keyVars, decVars, dbVars, qryVars, cliVars, bldVars>>

CollFilter == \E p \in Predicates : Method("filter", p)
CollSort == \E a \in SortArgs : Method("sort", a)
CollMap == \E f \in KeyFuncs : Method("map", f)
CollGroupBy == \E f \in KeyFuncs : Method("group_by", f)
CollTake == \E n \in SliceArgs : Method("take", n)
CollSkip == \E n \in SliceArgs : Method("skip", n)
CollFirst == Method("first", "")
CollLast == Method("last", "")
CollAny == \E p \in Predicates \cup {"None"} : Method("any", p)
CollAll == \E p \in Predicates : Method("all", p)

\* the items property: the caller gets the list the collection holds
CollItems ==
    /\ pc = "coll"
    /\ held' = held \cup {<<c_items, "items">>}
    /\ c_out' = Called("items", "", Ok(heap[c_items]))
    /\ UNCHANGED <<fnVars, pc, heap, c_items, recVars, keyVars, decVars, dbVars, qryVars, cliVars, bldVars>>

\* to_list(): self._items.copy(), a list of its own
CollToList ==
    /\ pc = "coll"
    /\ Len(heap) < MaxLists
    /\ heap' = Append(heap, heap[c_items])
    /\ held' = held \cup {<<Len(heap) + 1, "to_list">>}
    /\ c_out' = Called("to_list", "", Ok(heap[c_items]))
    /\ UNCHANGED <<fnVars, pc, c_items, recVars, keyVars, decVars, dbVars, qryVars, cliVars, bldVars>>

\* the caller appends to a list it holds
ListAppend ==
    /\ pc = "coll"
    /\ \E h \in held, x \in ItemPool :
          /\ heap' = [heap EXCEPT ![h[1]] = Append(@, x)]
          /\ c_out' = Called("list.append", h, Ok(None))
    /\ pc' = "coll_mutated"
    /\ UNCHANGED <<fnVars, c_items, held, recVars, keyVars, decVars, dbVars, qryVars, cliVars, bldVars>>

\* the caller empties a list it holds
ListClear ==
    /\ pc = "coll"
    /\ \E h \in held :
          /\ heap' = [heap EXCEPT ![h[1]] = <<>>]
          /\ c_out' = Called("list.clear", h, Ok(None))
    /\ pc' = "coll_mutated"
    /\ UNCHANGED <<fnVars, c_items, held, recVars, keyVars, decVars, dbVars, qryVars, cliVars, bldVars>>

CollNext ==
    \/ CollFilter \/ CollSort \/ CollMap \/ CollGroupBy \/ CollTake \/ CollSkip
    \/ CollFirst \/ CollLast \/ CollAny \/ CollAll \/ CollItems \/ CollToList
    \/ ListAppend \/ ListClear

SpecColl == CollInit /\ [][CollNext]_vars

(***************************************************************************)
(* Claims about Collection (specification SpecColl).                       *)
(***************************************************************************)
\* the collection's items, C.items
Items == heap[c_items]

PureMethods == {"filter", "sort", "map", "group_by", "take", "skip", "first",
                "last", "any", "all", "to_list"}

\* the items a predicate is true on, in their order
Accepted(items, predicate) == SelectSeq(items, LAMBDA x : Call(predicate, x) = "true")

\* C12: a call of filter, sort, map, group_by, take, skip, first, last,
\* any, all or to_list leaves the collection's list, and so its length,
\* as it was; and filter(p) returns exactly the items p is true on, in
\* their original order
C12_CollectionPurity ==
    [][c_out'.t \in PureMethods =>
          /\ c_items' = c_items
          /\ heap'[c_items] = heap[c_items]
          /\ (c_out'.t = "filter" /\ c_out'.v.out.status = "ok")
                => c_out'.v.out.value = Accepted(heap[c_items], c_out'.v.arg)]_vars

\* filter has kept some items of the collection and dropped others
C12_Witness ==
    /\ c_out.t = "filter" /\ c_out.v.out.status = "ok"
    /\ Len(c_out.v.out.value) > 0
    /\ Len(c_out.v.out.value) < Len(Items)
    /\ Items[1] \notin Range(c_out.v.out.value)

\* C13: no change the caller makes to a list it holds (the one passed to
\* the constructor, the one the items property returned, the one to_list
\* returned) changes the length or the content of the collection
C13_IndependentSnapshot ==
    [][c_out'.t \in {"list.append", "list.clear"} =>
          /\ c_items' = c_items
          /\ heap'[c_items] = heap[c_items]]_vars

\* position of the first item of items with the key
FirstWith(items, key_func, key) ==
    Min({i \in DOMAIN items : KeyOf(key_func, items[i]) = key})

RECURSIVE SumLen(_, _)
SumLen(groups, i) ==
    IF i > Len(groups) THEN 0 ELSE Len(groups[i][2]) + SumLen(groups, i + 1)

\* C14: the groups of group_by(k) are non-empty, each holds exactly the
\* items with its key in their order of the collection, no key occurs
\* twice and every item's key occurs, keys come in the order of their
\* first occurrence, and the group sizes add up to len(C)
C14_GroupByPartitions ==
    (c_out.t = "group_by" /\ c_out.v.out.status = "ok") =>
        LET groups == c_out.v.out.value
            k == c_out.v.arg
        IN  /\ \A i \in DOMAIN groups : groups[i][2] # <<>>
            /\ \A i \in DOMAIN groups :
                   groups[i][2] = SelectSeq(Items, LAMBDA x : KeyOf(k, x) = groups[i][1])
            /\ \A i, j \in DOMAIN groups : groups[i][1] = groups[j][1] => i = j
            /\ \A n \in DOMAIN Items :
                   \E i \in DOMAIN groups : groups[i][1] = KeyOf(k, Items[n])
            /\ \A i, j \in DOMAIN groups :
                   i < j => FirstWith(Items, k, groups[i][1]) < FirstWith(Items, k, groups[j][1])
            /\ SumLen(groups, 1) = Len(Items)

\* two groups, the first with two items that another group's item separates
C14_Witness ==
    /\ c_out.t = "group_by" /\ c_out.v.out.status = "ok"
    /\ Len(c_out.v.out.value) = 2
    /\ Len(c_out.v.out.value[1][2]) = 2
    /\ KeyOf(c_out.v.arg, Items[2]) = c_out.v.out.value[2][1]

\* C15: for n >= 0, take(n) holds the first min(n, len(C)) items, skip(n)
\* the remaining ones, take(n).items followed by skip(n).items is C.items,
\* and neither call raises
C15_TakeSkipComplementary ==
    (c_out.t \in {"take", "skip"} /\ c_out.v.arg >= 0) =>
        LET n == c_out.v.arg
            cut == Min({n, Len(Items)})
        IN  /\ c_out.v.out.status = "ok"
            /\ c_out.t = "take" => c_out.v.out.value = SubSeq(Items, 1, cut)
            /\ c_out.t = "skip" => c_out.v.out.value = SubSeq(Items, cut + 1, Len(Items))
            /\ Collection_take(Items, n).status = "ok"
            /\ Collection_skip(Items, n).status = "ok"
            /\ Collection_take(Items, n).value \o Collection_skip(Items, n).value = Items

\* skip(n) has dropped some items and kept others
C15_Witness ==
    /\ c_out.t = "skip" /\ c_out.v.arg >= 1
    /\ c_out.v.arg < Len(Items)
    /\ c_out.v.out.value # <<>>

(***************************************************************************)
(* The connection of CursorDataClient (client.py): _get_connection, close, *)
(* the with-block, and the storage calls that reach the connection.  A     *)
(* connection is named by the number of the sqlite3.connect call that made *)
(* it; 0 stands for None.                                                  *)
(***************************************************************************)
MaxConnects == 2   \* sqlite3.connect calls in one behaviour
MaxRequests == 3   \* statements executed in one behaviour

K_aiCodeTrackingLines == <<"a","i","C","o","d","e","T","r","a","c","k","i","n","g","L","i","n","e","s">>

TableNames == {"ItemTable", "cursorDiskKV", "InvalidTable"}
ValidTables == {"ItemTable", "cursorDiskKV"}

\* what _get_connection and close leave behind
Handle(conn, open, count, exc) == [connection |-> conn, live |-> open, opened |-> count, exc |-> exc]

\* _get_connection that connects on every call
get_connection_Always(conn, open, count, ok) ==
    IF ok THEN Handle(count + 1, open \cup {count + 1}, count + 1, "")
    ELSE Handle(conn, open, count, "sqlite3.OperationalError")

\* _get_connection(): ok says whether sqlite3.connect succeeds
get_connection(conn, open, count, ok) ==
    IF conn # 0 THEN Handle(conn, open, count, "")
    ELSE IF ok THEN Handle(count + 1, open \cup {count + 1}, count + 1, "")
    ELSE Handle(conn, open, count, "sqlite3.OperationalError")

\* close()
close(conn, open, count) ==
    IF conn # 0 THEN Handle(0, open \ {conn}, count, "") ELSE Handle(conn, open, count, "")

\* "SELECT key FROM tbl" in scan order
KeysOf(tbl) ==
    IF tbl = "cursorDiskKV" THEN [i \in DOMAIN table |-> table[i].key]
    ELSE IF tracking = None THEN <<>> ELSE <<K_aiCodeTrackingLines>>

\* a generator object of iterate_all_keys
Gen(tbl, state, conn, rest) == [t |-> "gen", v |-> [table |-> tbl, state |-> state, conn |-> conn, rest |-> rest]]

SearchPatterns == {<<"%">>, <<"a","i","%">>, <<"b","u","b","b","l","e","I","d",":","%">>, <<"x">>}

CanConnect == connection # 0 \/ opened < MaxConnects

ClientInit ==
    /\ pc = "client"
    /\ table \in Tables(RowPool("bubbles"), 1)
    /\ tracking \in {None, Bytes(<<Punct("["), Punct("]")>>)}
    /\ connection = 0 /\ live = {} /\ opened = 0 /\ requests = 0
    /\ generator = None /\ scope = "out" /\ cl_out = None
    /\ qkind = "" /\ qlimit = None /\ qoffset = 0 /\ qfilters = <<>>
    /\ qid = None /\ qres = None /\ cres = None
    /\ RecIdle /\ KeyIdle /\ DecIdle /\ CollIdle /\ BldIdle /\ FnIdle

\* the client after a storage call that reached h and, connected, got value
Stored(h, op, arg, value) ==
    /\ connection' = h.connection
    /\ live' = h.live
    /\ opened' = h.opened
    /\ requests' = IF h.exc = "" THEN requests + 1 ELSE requests
    /\ cl_out' = Called(op, arg, IF h.exc = "" THEN Ok(value) ELSE Fail(h.exc))

\* get_value(ItemTableKey.AI_CODE_TRACKING_LINES)
GetValue ==
    /\ pc = "client" /\ requests < MaxRequests /\ CanConnect
    /\ \E ok \in BOOLEAN :
          Stored(get_connection(connection, live, opened, ok), "get_value",
                 K_aiCodeTrackingLines, tracking)
    /\ UNCHANGED <<fnVars, pc, recVars, keyVars, decVars, dbVars, qryVars, collVars, bldVars, generator, scope>>

\* search_keys(pattern, tbl)
SearchKeys ==
    /\ pc = "client" /\ requests < MaxRequests /\ CanConnect
    /\ \E pattern \in SearchPatterns, tbl \in TableNames :
          IF tbl \notin ValidTables
          THEN /\ cl_out' = Called("search_keys", tbl, Fail("ValueError"))
               /\ UNCHANGED <<connection, live, opened, requests>>
          ELSE \E ok \in BOOLEAN :
                  Stored(get_connection(connection, live, opened, ok), "search_keys", tbl,
                         SelectSeq(KeysOf(tbl), LAMBDA k : Like(pattern, 1, k, 1)))
    /\ UNCHANGED <<fnVars, pc, recVars, keyVars, decVars, dbVars, qryVars, collVars, bldVars, generator, scope>>

\* iterate_all_keys(tbl): the body has a yield, so the call builds a
\* generator and runs none of the body
IterateAllKeys ==
    /\ pc = "client" /\ generator = None
    /\ \E tbl \in TableNames :
          /\ generator' = Gen(tbl, "created", 0, <<>>)
          /\ cl_out' = Called("iterate_all_keys", tbl, Ok(<<"generator">>))
    /\ UNCHANGED <<fnVars, pc, recVars, keyVars, decVars, dbVars, qryVars, collVars, bldVars,
                   connection, live, opened, requests, scope>>

\* the generator after the cursor was asked for a row of rest
Fetched(tbl, conn, rest) ==
    IF rest = <<>>
    THEN /\ generator' = Gen(tbl, "finished", conn, <<>>)
         /\ cl_out' = Called("next", tbl, Fail("StopIteration"))
    ELSE /\ generator' = Gen(tbl, "suspended", conn, Tail(rest))
         /\ cl_out' = Called("next", tbl, Ok(Head(rest)))

\* first next(): the body of iterate_all_keys runs to its first yield
Started(tbl, h) ==
    /\ connection' = h.connection
    /\ live' = h.live
    /\ opened' = h.opened
    /\ IF h.exc = ""
       THEN /\ requests' = requests + 1
            /\ Fetched(tbl, h.connection, KeysOf(tbl))
       ELSE /\ requests' = requests
            /\ generator' = Gen(tbl, "finished", 0, <<>>)
            /\ cl_out' = Called("next", tbl, Fail(h.exc))

\* next(generator)
GenNext ==
    /\ pc = "client" /\ generator # None
    /\ generator.v.state # "finished"
    /\ IF generator.v.state = "created"
       THEN IF generator.v.table \notin ValidTables
            THEN /\ generator' = Gen(generator.v.table, "finished", 0, <<>>)
                 /\ cl_out' = Called("next", generator.v.table, Fail("ValueError"))
                 /\ UNCHANGED <<connection, live, opened, requests>>
            ELSE /\ requests < MaxRequests /\ CanConnect
                 /\ \E ok \in BOOLEAN :
                       Started(generator.v.table, get_connection(connection, live, opened, ok))
       ELSE /\ IF generator.v.conn \in live
               THEN Fetched(generator.v.table, generator.v.conn, generator.v.rest)
               ELSE /\ generator' = Gen(generator.v.table, "finished", generator.v.conn, <<>>)
                    /\ cl_out' = Called("next", generator.v.table, Fail("sqlite3.ProgrammingError"))
            /\ UNCHANGED <<connection, live, opened, requests>>
    /\ UNCHANGED <<fnVars, pc, recVars, keyVars, decVars, dbVars, qryVars, collVars, bldVars, scope>>

\* the client after close() ran inside op
Closed(h, op, arg) ==
    /\ connection' = h.connection
    /\ live' = h.live
    /\ opened' = h.opened
    /\ cl_out' = Called(op, arg, Ok(None))

\* client.close()
Close ==
    /\ pc = "client"
    /\ Closed(close(connection, live, opened), "close", None)
    /\ UNCHANGED <<fnVars, pc, recVars, keyVars, decVars, dbVars, qryVars, collVars, bldVars,
                   requests, generator, scope>>

\* "with client:" is entered
Enter ==
    /\ pc = "client" /\ scope = "out"
    /\ scope' = "in"
    /\ cl_out' = Called("__enter__", None, Ok(<<"self">>))
    /\ UNCHANGED <<fnVars, pc, recVars, keyVars, decVars, dbVars, qryVars, collVars, bldVars,
                   connection, live, opened, requests, generator>>

\* the with-block is left at its end
ExitNormal ==
    /\ pc = "client" /\ scope = "in"
    /\ scope' = "out"
    /\ Closed(close(connection, live, opened), "__exit__", None)
    /\ UNCHANGED <<fnVars, pc, recVars, keyVars, decVars, dbVars, qryVars, collVars, bldVars,
                   requests, generator>>

\* the with-block is left by an exception raised in it; __exit__ returns
\* None, so the exception goes on to the caller
ExitByException ==
    /\ pc = "client" /\ scope = "in"
    /\ scope' = "out"
    /\ \E exc \in {"ValueError", "sqlite3.OperationalError"} :
          Closed(close(connection, live, opened), "__exit__", Fail(exc))
    /\ UNCHANGED <<fnVars, pc, recVars, keyVars, decVars, dbVars, qryVars, collVars, bldVars,
                   requests, generator>>

ClientNext ==
    \/ GetValue \/ SearchKeys \/ IterateAllKeys \/ GenNext
    \/ Close \/ Enter \/ ExitNormal \/ ExitByException

SpecClient == ClientInit /\ [][ClientNext]_vars

StorageCalls == {"get_value", "search_keys", "next"}

\* C16: the client starts with no connection, a connection is made only in a
\* step of a call that needs storage while the client has none, the open
\* connections are never more than the one the client holds, close() and both
\* ways out of a with-block return normally and leave no connection open, and
\* close() on a closed client changes nothing
C16_ConnectionLifecycle ==
    /\ (pc = "client" => connection = 0 /\ live = {} /\ opened = 0)
    /\ [][pc = "client" =>
            /\ Cardinality(live') <= 1
            /\ live' = (IF connection' = 0 THEN {} ELSE {connection'})
            /\ (opened' # opened => cl_out'.t \in StorageCalls /\ connection = 0)
            /\ (cl_out'.t \in {"close", "__exit__"} =>
                   /\ connection' = 0 /\ live' = {}
                   /\ cl_out'.v.out = Ok(None))
            /\ (cl_out'.t = "close" /\ connection = 0 =>
                   UNCHANGED <<connection, live, opened, requests, generator, scope, dbVars>>)]_vars

\* a with-block was left by an exception after the client had reopened a
\* connection, and the cursor of a suspended generator lost its connection
C16_Witness ==
    /\ cl_out.t = "__exit__" /\ cl_out.v.arg = Fail("ValueError")
    /\ opened = MaxConnects /\ connection = 0 /\ live = {}
    /\ generator # None /\ generator.v.state = "suspended"

\* C17: search_keys and iterate_all_keys called with a table that is neither
\* ItemTable nor cursorDiskKV raise ValueError in the step of the call, which
\* makes no connection and executes no statement
C17_InvalidTableFailsAtCall ==
    [][(cl_out'.t \in {"search_keys", "iterate_all_keys"} /\ cl_out'.v.arg \notin ValidTables) =>
          /\ cl_out'.v.out = Fail("ValueError")
          /\ UNCHANGED <<connection, live, opened, requests>>]_vars

(***************************************************************************)
(* Claims about the captures of parse_key_pattern (specification SpecKey). *)
(***************************************************************************)
\* position of the first occurrence of the text lit in key at or after
\* pos, 0 when there is none
FirstAt(key, lit, pos) ==
    LET hits == {p \in pos..(Len(key) - Len(lit) + 1) :
                    SubSeq(key, p, p + Len(lit) - 1) = lit}
    IN  IF hits = {} THEN 0 ELSE Min(hits)

\* the captures as the rule of the claim gives them, placeholder i onwards
\* starting at position pos of key: the last placeholder runs to the end
\* of key, an earlier one to the first occurrence of the literal after it
RECURSIVE GreedinessRule(_, _, _, _)
GreedinessRule(pat, key, i, pos) ==
    LET names == PlaceholderNames(pat)
        lit == LiteralAfter(pat)[i]
        stop == FirstAt(key, lit, pos)
    IN  IF i = Len(names)
        THEN << <<names[i], JStr(SubSeq(key, pos, Len(key)))>> >>
        ELSE IF stop = 0 THEN << <<names[i], JStr(SubSeq(key, pos, Len(key)))>> >>
        ELSE << <<names[i], JStr(SubSeq(key, pos, stop - 1))>> >>
             \o GreedinessRule(pat, key, i + 1, stop + Len(lit))

\* C11: in every successful match the last placeholder captures
\* everything from its start to the end of the key, and every earlier
\* placeholder captures the characters up to the first occurrence of the
\* literal delimiter that follows it in the pattern, ':' or '-' alike
C11_PlaceholderGreediness ==
    (pc = "key_done" /\ kres.t = "obj" /\ Len(PlaceholderNames(k_pattern)) >= 1)
        => kres = JObj(GreedinessRule(k_pattern, k_key, 1,
                                      Len(Split(k_pattern, "{")[1]) + 1))

(***************************************************************************)
(* Specification SpecTracking: a JSON list is stored under                 *)
(* aiCodeTrackingLines; get_ai_code_tracking_entries reads it, and         *)
(* AICodeTrackingEntry.from_dict is called on one of its objects directly. *)
(***************************************************************************)
\* elements of the stored list: objects with and without "hash", values
\* that are no object, and an array nested to the recursion limit
ElementPool ==
    {EntryText(<<"h","1">>, <<"a">>, <<"a">>), EntryText(<<"h","2">>, <<"b">>, <<>>),
     EntryText(<<>>, <<"a">>, <<"a">>),
     <<NumLit("1")>>, <<StrLit(K_hash)>>, <<T_null>>, Nested(1), Nested(RecursionLimit)}

TrackInit ==
    /\ pc = "tracking"
    /\ table = <<>>
    /\ tracking \in {Bytes(ListText(l)) : l \in Lists(ElementPool, MaxRows)}
    /\ qkind = "" /\ qlimit = None /\ qoffset = 0 /\ qfilters = <<>>
    /\ qid = None /\ qres = None /\ cres = None
    /\ RecIdle /\ KeyIdle /\ DecIdle /\ CollIdle /\ CliIdle /\ BldIdle /\ FnIdle

\* client.get_ai_code_tracking_entries()
GetEntries ==
    /\ pc = "tracking" /\ qres = None
    /\ qres' = get_ai_code_tracking_entries(tracking)
    /\ UNCHANGED <<fnVars, pc, recVars, keyVars, decVars, dbVars, collVars, cliVars, bldVars,
                   qkind, qlimit, qoffset, qfilters, qid, cres>>

\* the objects among the elements of a decoded value
ObjectsOf(data) ==
    IF data.t = "arr" THEN {data.v[i].v : i \in {j \in DOMAIN data.v : IsDict(data.v[j])}}
    ELSE {}

\* AICodeTrackingEntry.from_dict(data), data one of the stored objects
EntryFromDict ==
    /\ pc = "tracking" /\ rres = None
    /\ \E data \in ObjectsOf(decode_json_value(tracking)) :
          /\ rkind' = "AICodeTrackingEntry"
          /\ rdata' = data
          /\ rres' = from_dict("AICodeTrackingEntry", data, None, None)
    /\ UNCHANGED <<fnVars, pc, rparts, keyVars, decVars, dbVars, collVars, cliVars, bldVars, qryVars>>

TrackNext == GetEntries \/ EntryFromDict

SpecTracking == TrackInit /\ [][TrackNext]_vars

\* the objects of data from element i on that have "hash", in order
RECURSIVE CarryingHash(_, _)
CarryingHash(data, i) ==
    IF i > Len(data) THEN <<>>
    ELSE (IF IsDict(data[i]) /\ DictHas(data[i].v, K_hash) THEN <<data[i].v>> ELSE <<>>)
         \o CarryingHash(data, i + 1)

\* C18: from_dict called directly raises KeyError exactly when the object
\* has no "hash"; get_ai_code_tracking_entries returns normally whatever
\* the elements of the stored list are, with one entry per object element
\* that has "hash", in stored order, holding that hash
C18_MandatoryHashDirectVersusBatch ==
    /\ (pc = "tracking" /\ rres # None) =>
           (rres.status = "raised" /\ rres.exc = "KeyError") <=> ~DictHas(rdata, K_hash)
    /\ (pc = "tracking" /\ rres # None /\ DictHas(rdata, K_hash)) => rres.status = "ok"
    /\ (pc = "tracking" /\ qres # None) =>
           /\ qres.status = "ok"
           /\ LET kept == CarryingHash(decode_json_value(tracking).v, 1)
              IN  /\ Len(qres.items) = Len(kept)
                  /\ \A i \in DOMAIN kept :
                        qres.items[i].fields["hash"] = DictGet(kept[i], K_hash)

(***************************************************************************)
(* Specification SpecBuilder: limit, offset, page and filter of BaseQuery  *)
(* called in any order on one builder (query.py).  The builder is object   *)
(* 1; a call returns the identity of the object it hands back.             *)
(***************************************************************************)
MaxCalls == 3     \* builder calls in one behaviour

\* the arguments the calls are made with: negative and zero among them
BuilderInts == {-1, 0, 2}
BuilderPageNums == {0, 2}
BuilderPageSizes == {0, 10}

\* a BaseQuery object
Builder(id, limit, offset, filters) == [id |-> id, limit |-> limit, offset |-> offset, filters |-> filters]

\* what a method leaves of self, and the object it returns
Chained(self, out) == [self |-> self, out |-> out]

\* limit(n) that refuses a negative n
BaseQuery_limit_Validated(self, n) ==
    IF n < 0 THEN Chained(self, self.id)
    ELSE Chained([self EXCEPT !.limit = PyInt(n)], self.id)

\* BaseQuery.limit(n)
BaseQuery_limit(self, n) == Chained([self EXCEPT !.limit = PyInt(n)], self.id)

\* BaseQuery.offset(n)
BaseQuery_offset(self, n) == Chained([self EXCEPT !.offset = n], self.id)

\* BaseQuery.page(page_num, page_size)
BaseQuery_page(self, page_num, page_size) ==
    Chained([self EXCEPT !.offset = (page_num - 1) * page_size, !.limit = PyInt(page_size)],
            self.id)

\* BaseQuery.filter(predicate)
BaseQuery_filter(self, predicate) ==
    Chained([self EXCEPT !.filters = Append(self.filters, predicate)], self.id)

\* BaseQuery.__init__: the builder of a query kind, no call made yet
BuilderInit ==
    /\ pc = "builder"
    /\ qkind \in QueryKinds
    /\ table = <<>> /\ tracking = None
    /\ qlimit = None /\ qoffset = 0 /\ qfilters = <<>> /\ qid = None
    /\ qres = None /\ cres = None
    /\ calls = <<>> /\ qagain = None
    /\ RecIdle /\ KeyIdle /\ DecIdle /\ CollIdle /\ CliIdle /\ FnIdle

\* the builder after a call that left r
AfterCall(r, op, arg) ==
    /\ qlimit' = r.self.limit
    /\ qoffset' = r.self.offset
    /\ qfilters' = r.self.filters
    /\ calls' = Append(calls, Called(op, arg, Ok(r.out)))

BuilderLimit ==
    /\ pc = "builder" /\ Len(calls) < MaxCalls
    /\ \E n \in BuilderInts :
          AfterCall(BaseQuery_limit(Builder(1, qlimit, qoffset, qfilters), n), "limit", n)
    /\ UNCHANGED <<fnVars, pc, recVars, keyVars, decVars, dbVars, collVars, cliVars,
                   qkind, qid, qres, cres, qagain>>

BuilderOffset ==
    /\ pc = "builder" /\ Len(calls) < MaxCalls
    /\ \E n \in BuilderInts :
          AfterCall(BaseQuery_offset(Builder(1, qlimit, qoffset, qfilters), n), "offset", n)
    /\ UNCHANGED <<fnVars, pc, recVars, keyVars, decVars, dbVars, collVars, cliVars,
                   qkind, qid, qres, cres, qagain>>

BuilderPage ==
    /\ pc = "builder" /\ Len(calls) < MaxCalls
    /\ \E page_num \in BuilderPageNums, page_size \in BuilderPageSizes :
          AfterCall(BaseQuery_page(Builder(1, qlimit, qoffset, qfilters), page_num, page_size),
                    "page", <<page_num, page_size>>)
    /\ UNCHANGED <<fnVars, pc, recVars, keyVars, decVars, dbVars, collVars, cliVars,
                   qkind, qid, qres, cres, qagain>>

BuilderFilter ==
    /\ pc = "builder" /\ Len(calls) < MaxCalls
    /\ \E predicate \in Predicates :
          AfterCall(BaseQuery_filter(Builder(1, qlimit, qoffset, qfilters), predicate),
                    "filter", predicate)
    /\ UNCHANGED <<fnVars, pc, recVars, keyVars, decVars, dbVars, collVars, cliVars,
                   qkind, qid, qres, cres, qagain>>

BuilderNext == BuilderLimit \/ BuilderOffset \/ BuilderPage \/ BuilderFilter

SpecBuilder == BuilderInit /\ [][BuilderNext]_vars

\* the position of the last call so far that is one of ops, 0 when none is
LastCall(ops) ==
    LET at == {i \in DOMAIN calls : calls[i].t \in ops}
    IN  IF at = {} THEN 0 ELSE CHOOSE i \in at : \A j \in at : j <= i

\* the arguments of the filter calls so far, in call order
RECURSIVE FilterArgs(_)
FilterArgs(i) ==
    IF i > Len(calls) THEN <<>>
    ELSE (IF calls[i].t = "filter" THEN <<calls[i].v.arg>> ELSE <<>>) \o FilterArgs(i + 1)

\* C19: after any sequence of limit, offset, page and filter calls every
\* call has returned the builder it was called on and none has raised; the
\* stored limit is the argument of the last limit call or the page size of
\* the last page call, whichever came later (None when neither was made);
\* the stored offset is the argument of the last offset call or
\* (page_num - 1) * page_size of the last page call, whichever came later
\* (0 when neither was made); the predicate list is the arguments of the
\* filter calls in call order; negative and zero arguments are stored as given
C19_BuilderLastWriterWins ==
    pc = "builder" =>
        /\ \A i \in DOMAIN calls : calls[i].v.out = Ok(1)
        /\ LET l == LastCall({"limit", "page"})
           IN  qlimit = (IF l = 0 THEN None
                         ELSE IF calls[l].t = "limit" THEN PyInt(calls[l].v.arg)
                         ELSE PyInt(calls[l].v.arg[2]))
        /\ LET o == LastCall({"offset", "page"})
           IN  qoffset = (IF o = 0 THEN 0
                          ELSE IF calls[o].t = "offset" THEN calls[o].v.arg
                          ELSE (calls[o].v.arg[1] - 1) * calls[o].v.arg[2])
        /\ qfilters = FilterArgs(1)
        /\ (calls # <<>> /\ calls[Len(calls)] = Called("page", <<0, 10>>, Ok(1))) =>
               qoffset = -10 /\ qlimit = PyInt(10)

\* limit(-1) and offset(2) were overwritten by page(0, 10)
C19_Witness ==
    /\ pc = "builder"
    /\ calls = <<Called("limit", -1, Ok(1)), Called("offset", 2, Ok(1)),
                 Called("page", <<0, 10>>, Ok(1))>>
    /\ qoffset = -10 /\ qlimit = PyInt(10)

MaxNameLen == 4    \* characters of a name

\* letters of both cases and a digit
NameChars == {"a", "b", "A", "B", "1"}

\* the names of at most n characters
RECURSIVE Names(_)
Names(n) ==
    IF n = 0 THEN {<<>>}
    ELSE LET shorter == Names(n - 1)
         IN  shorter \cup {Append(s, c) : s \in {t \in shorter : Len(t) = n - 1}, c \in NameChars}

CaseInit ==
    /\ pc = "case"
    /\ call \in {[t |-> "camel_to_snake", v |-> name] : name \in Names(MaxNameLen)}
    /\ result = None
    /\ RecIdle /\ KeyIdle /\ DecIdle /\ QryIdle /\ CollIdle /\ CliIdle /\ BldIdle

\* camel_to_snake(name)
CamelToSnake ==
    /\ pc = "case"
    /\ result' = camel_to_snake(call.v)
    /\ pc' = "case_once"
    /\ UNCHANGED <<call, recVars, keyVars, decVars, dbVars, qryVars, collVars, cliVars, bldVars>>

\* camel_to_snake(camel_to_snake(name))
CamelToSnakeAgain ==
    /\ pc = "case_once"
    /\ call' = [t |-> "camel_to_snake", v |-> result]
    /\ result' = camel_to_snake(result)
    /\ pc' = "case_twice"
    /\ UNCHANGED <<recVars, keyVars, decVars, dbVars, qryVars, collVars, cliVars, bldVars>>

CaseNext == CamelToSnake \/ CamelToSnakeAgain

SpecCase == CaseInit /\ [][CaseNext]_vars

\* C24: camel_to_snake called on what camel_to_snake returned for a name of
\* ASCII letters and digits returns its argument, and camel_to_snake of the
\* empty name is the empty name
C24_CaseTranslationIdempotent ==
    /\ pc = "case_twice" => result = call.v
    /\ (pc = "case_once" /\ call.v = <<>>) => result = <<>>

\* the second call was made on a name the first had put an underscore into
C24_Witness ==
    /\ pc = "case_twice"
    /\ call.v = <<"a", "_", "b", "b", "1">>
    /\ result = call.v

(***************************************************************************)
(* Specification SpecAutoMap: auto_map_camel_to_snake is called on a       *)
(* decoded object, with or without a table of known fields (utils.py).     *)
(***************************************************************************)
MaxMembers == 2    \* members of the object passed to auto_map_camel_to_snake

\* known_fields: absent, empty, one key under a name of its own, two keys
\* under their translated names
KnownFieldTables ==
    {None, JObj(<<>>), JObj(<< <<K_bubbleId, "bid">> >>),
     JObj(<< <<K_bubbleId, "bubble_id">>, <<K_modelName, "model_name">> >>)}

AutoMapInit ==
    /\ pc = "automap"
    /\ call \in {[t |-> "auto_map_camel_to_snake", v |-> [data |-> d, known_fields |-> k]] :
                    d \in {x \in Payloads(MaxMembers) : WellFormedDict(x)},
                    k \in KnownFieldTables}
    /\ result = None
    /\ RecIdle /\ KeyIdle /\ DecIdle /\ QryIdle /\ CollIdle /\ CliIdle /\ BldIdle

\* auto_map_camel_to_snake(data, known_fields)
AutoMap ==
    /\ pc = "automap"
    /\ result' = auto_map_camel_to_snake(call.v.data, call.v.known_fields)
    /\ pc' = "automapped"
    /\ UNCHANGED <<call, recVars, keyVars, decVars, dbVars, qryVars, collVars, cliVars, bldVars>>

AutoMapNext == AutoMap

SpecAutoMap == AutoMapInit /\ [][AutoMapNext]_vars

\* the name the table, or else camel_to_snake, gives key k
TargetName(known_fields, k) ==
    IF known_fields # None /\ DictHas(known_fields.v, k) THEN DictGet(known_fields.v, k)
    ELSE Join(camel_to_snake(k))

\* C26: auto_map_camel_to_snake(data, table) returns (mapped, unknown) with
\* unknown empty; every key k of data has its value in mapped under the name
\* the table gives k, or camel_to_snake(k) when the table has no k; mapped
\* has no other key, and as many keys as data
C26_FieldRoutingKeepsEveryEntry ==
    pc = "automapped" =>
        /\ result[2] = <<>>
        /\ \A k \in DictKeys(call.v.data) :
              /\ DictHas(result[1], TargetName(call.v.known_fields, k))
              /\ DictGet(result[1], TargetName(call.v.known_fields, k)) = DictGet(call.v.data, k)
        /\ DictKeys(result[1]) = {TargetName(call.v.known_fields, k) : k \in DictKeys(call.v.data)}
        /\ Len(result[1]) = Len(call.v.data)

(***************************************************************************)
(* The payload after from_dict (specification SpecRecord).                 *)
(***************************************************************************)
\* C27: after BubbleConversation.from_dict(d, ...) has returned or raised,
\* d and the mappings nested in d have the keys and values they had before
\* the call
C27_FromDictLeavesInputAlone ==
    (pc = "record_done" /\ rkind = "BubbleConversation") => rres.data = rdata

(***************************************************************************)
(* Specification SpecWhere: where(...) of BubbleQuery,                     *)
(* ComposerSessionQuery and TrackingQuery, called on a builder that may    *)
(* already hold a predicate (query.py).  A criterion is None or a value;   *)
(* the predicate where() defines for it is named by its def.               *)
(***************************************************************************)
\* a datetime: seconds on the wall clock and its tzinfo ("" when naive)
DateTime(wall, tz) == [t |-> "datetime", v |-> <<wall, tz>>]

WhereKinds == {"bubbles", "composer_sessions", "tracking_entries"}

\* the values each criterion is given in the model, None among them
BubbleCriteria ==
    [created_after : {None, DateTime(1, "")},
     created_before : {None, DateTime(2, "")},
     model_name : {None, JStr(<<>>), JStr(<<"m","1">>)},
     min_input_tokens : {None, PyInt(0), PyInt(5)},
     min_output_tokens : {None, PyInt(0)},
     has_code_blocks : {None, JBool(FALSE)},
     has_diffs : {None, JBool(TRUE)},
     has_lint_errors : {None, JBool(FALSE)},
     is_agentic : {None, JBool(FALSE)}]
ComposerSessionCriteria ==
    [file_extension : {None, JStr(<<>>), JStr(<<".","p","y">>)},
     min_files : {None, PyInt(0), PyInt(1)},
     max_files : {None, PyInt(0), PyInt(3)}]
TrackingCriteria ==
    [source : {None, JStr(<<>>), JStr(<<"a">>)},
     file_extension : {None, JStr(<<>>), JStr(<<".","p","y">>)},
     composer_id : {None, JStr(<<>>), JStr(<<"c","1">>)}]
CriteriaOf(kind) ==
    CASE kind = "bubbles" -> BubbleCriteria
      [] kind = "composer_sessions" -> ComposerSessionCriteria
      [] kind = "tracking_entries" -> TrackingCriteria

\* self.filter(name) when the if statement above the def holds
FilterIf(filters, condition, name) == IF condition THEN Append(filters, name) ELSE filters

\* BubbleQuery.where(**a)
BubbleQuery_where(filters, a) ==
    FilterIf(FilterIf(FilterIf(FilterIf(FilterIf(FilterIf(FilterIf(filters,
        PyTruthy(a.created_after) \/ PyTruthy(a.created_before), "date_filter"),
        PyTruthy(a.model_name), "model_filter"),
        a.min_input_tokens # None \/ a.min_output_tokens # None, "token_filter"),
        a.has_code_blocks # None, "code_filter"),
        a.has_diffs # None, "diff_filter"),
        a.has_lint_errors # None, "lint_filter"),
        a.is_agentic # None, "agentic_filter")

\* ComposerSessionQuery.where(**a)
ComposerSessionQuery_where(filters, a) ==
    FilterIf(FilterIf(filters,
        PyTruthy(a.file_extension), "ext_filter"),
        a.min_files # None \/ a.max_files # None, "file_count_filter")

\* TrackingQuery.where(**a)
TrackingQuery_where(filters, a) ==
    FilterIf(FilterIf(FilterIf(filters,
        PyTruthy(a.source), "source_filter"),
        PyTruthy(a.file_extension), "ext_filter"),
        PyTruthy(a.composer_id), "composer_filter")

where(kind, filters, a) ==
    CASE kind = "bubbles" -> BubbleQuery_where(filters, a)
      [] kind = "composer_sessions" -> ComposerSessionQuery_where(filters, a)
      [] kind = "tracking_entries" -> TrackingQuery_where(filters, a)

WhereInit ==
    /\ pc = "where"
    /\ qkind \in WhereKinds
    /\ table = <<>> /\ tracking = None
    /\ qlimit = None /\ qoffset = 0 /\ qfilters = <<>> /\ qid = None
    /\ qres = None /\ cres = None
    /\ calls = <<>> /\ qagain = None
    /\ RecIdle /\ KeyIdle /\ DecIdle /\ CollIdle /\ CliIdle /\ FnIdle

\* filter(predicate) before where()
WhereFilter ==
    /\ pc = "where" /\ calls = <<>>
    /\ \E predicate \in Predicates :
          /\ qfilters' = Append(qfilters, predicate)
          /\ calls' = Append(calls, Called("filter", predicate, Ok(1)))
    /\ UNCHANGED <<fnVars, pc, recVars, keyVars, decVars, dbVars, collVars, cliVars,
                   qkind, qlimit, qoffset, qid, qres, cres, qagain>>

\* where(**a) of the query kind
Where ==
    /\ pc = "where"
    /\ \E a \in CriteriaOf(qkind) :
          /\ qfilters' = where(qkind, qfilters, a)
          /\ calls' = Append(calls, Called("where", a, Ok(1)))
    /\ pc' = "where_done"
    /\ UNCHANGED <<fnVars, recVars, keyVars, decVars, dbVars, collVars, cliVars,
                   qkind, qlimit, qoffset, qid, qres, cres, qagain>>

WhereNext == WhereFilter \/ Where

SpecWhere == WhereInit /\ [][WhereNext]_vars

\* how many of the criteria of a are not None
NonNull(a) == Cardinality({f \in DOMAIN a : a[f] # None})

\* C21: a step that is a where call keeps the predicates the builder had
\* and appends one predicate for each argument that is not None, an empty
\* string or a zero counting as not None; with every argument None the
\* predicate list is unchanged
C21_WhereOnePredicatePerCriterion ==
    [][pc' = "where_done" =>
          /\ Len(qfilters') = Len(qfilters) + NonNull(calls'[Len(calls')].v.arg)
          /\ SubSeq(qfilters', 1, Len(qfilters)) = qfilters
          /\ (NonNull(calls'[Len(calls')].v.arg) = 0 => qfilters' = qfilters)]_vars

(***************************************************************************)
(* Specification SpecKeyed: rows stored under keys with an identifier      *)
(* part are read by execute(), with and without filter_by_bubble_id, and   *)
(* one by one by get_cursordiskkv_entry (client.py, query.py).             *)
(***************************************************************************)
KeyedKinds == {"bubbles", "checkpoints", "message_contexts"}

\* rows of the kind: one whose payload names another bubble, one whose key
\* ends after the second colon, two whose identifiers differ in the place
\* where one of them has an underscore
KeyedRows(kind) ==
    {Row(KeyPrefix(kind) \o <<"b","1",":","c","1">>,
         Str(ObjText(IF kind = "bubbles" THEN K_bubbleId ELSE MarkerMember(kind), <<"z","z">>))),
     Row(KeyPrefix(kind) \o <<"b","1",":">>, Str(ObjText(MarkerMember(kind), <<"a">>))),
     Row(KeyPrefix(kind) \o <<"b","x",":","c","1">>, Str(ObjText(MarkerMember(kind), <<"a">>))),
     Row(KeyPrefix(kind) \o <<"b","_",":","c","1">>, Str(ObjText(MarkerMember(kind), <<"b">>)))}

\* the identifiers filter_by_bubble_id is called with
KeyedIds == {JStr(<<"b","1">>), JStr(<<"b","_">>), JStr(<<"b","%">>), JStr(<<"B","1">>)}

K_messageRequestContext == <<"m","e","s","s","a","g","e","R","e","q","u","e","s","t","C","o","n","t","e","x","t",":">>
K_codeBlockDiff == <<"c","o","d","e","B","l","o","c","k","D","i","f","f",":">>
K_composerData == <<"c","o","m","p","o","s","e","r","D","a","t","a",":">>

\* what get_cursordiskkv_entry returns or raises for what from_dict did
EntryMade(made) == IF made.status = "raised" THEN Fail(made.exc) ELSE Ok(made.inst)

\* the bubbleId: branch, key_parts being what parse_key_pattern returned
BubbleEntry(data, key_parts) ==
    EntryMade(from_dict("BubbleConversation", data.v,
                        KeyPart(key_parts, K_bubble_id), KeyPart(key_parts, K_conversation_id)))

\* get_cursordiskkv_entry from the decoded value on; no key of the model
\* begins with inlineDiffs-
EntryDecoded(data, key) ==
    IF data.t = "exc" THEN Fail(data.v)
    ELSE IF data = None \/ ~IsDict(data) THEN Ok(data)
    ELSE IF HasPrefix(key, KeyPrefix("bubbles"))
    THEN BubbleEntry(data, parse_key_pattern(key, KeyPattern("bubbles").v))
    ELSE IF HasPrefix(key, K_messageRequestContext)
    THEN EntryMade(from_dict("MessageRequestContext", data.v, None, None))
    ELSE IF HasPrefix(key, KeyPrefix("checkpoints"))
    THEN EntryMade(from_dict("Checkpoint", data.v, None, None))
    ELSE IF HasPrefix(key, K_codeBlockDiff)
    THEN EntryMade(from_dict("CodeBlockDiff", data.v, None, None))
    ELSE IF HasPrefix(key, K_composerData)
    THEN EntryMade(from_dict("ComposerData", data.v, None, None))
    ELSE Ok(data)

\* the rows "WHERE key = ?" finds
RowsAt(rows, key) == SelectSeq(rows, LAMBDA r : r.key = key)

\* get_cursordiskkv_entry(key), found being the rows stored under key
EntryFound(found, key) ==
    IF found = <<>> THEN Ok(None) ELSE EntryDecoded(decode_json_value(found[1].value), key)

get_cursordiskkv_entry(rows, key) == EntryFound(RowsAt(rows, key), key)

KeyedInit ==
    /\ pc = "build"
    /\ qkind \in KeyedKinds
    /\ table \in Tables(KeyedRows(qkind), MaxRows) /\ tracking = None
    /\ qlimit = None /\ qoffset = 0 /\ qfilters = <<>> /\ qid = None
    /\ qres = None /\ cres = None
    /\ RecIdle /\ KeyIdle /\ DecIdle /\ CollIdle /\ CliIdle /\ BldIdle /\ FnIdle

\* filter_by_bubble_id(bubble_id) of BubbleQuery, CheckpointQuery and
\* MessageContextQuery
FilterByBubbleId ==
    /\ pc = "build"
    /\ \E bubble_id \in KeyedIds : qid' = bubble_id
    /\ UNCHANGED <<fnVars, pc, recVars, keyVars, decVars, dbVars, collVars, cliVars, bldVars,
                   qkind, qlimit, qoffset, qfilters, qres, cres>>

\* client.get_cursordiskkv_entry(key) for a stored key
GetEntry ==
    /\ pc = "build" /\ call = None
    /\ \E i \in DOMAIN table :
          /\ call' = [t |-> "get_cursordiskkv_entry", v |-> table[i].key]
          /\ result' = get_cursordiskkv_entry(table, table[i].key)
    /\ UNCHANGED <<pc, recVars, keyVars, decVars, dbVars, collVars, cliVars, bldVars, qryVars>>

KeyedNext == FilterByBubbleId \/ Execute \/ GetEntry

SpecKeyed == KeyedInit /\ [][KeyedNext]_vars

(***************************************************************************)
(* Claims about keys with an identifier part (specification SpecKeyed).    *)
(***************************************************************************)
\* the key without the kind prefix
AfterPrefix(kind, key) == SubSeq(key, Len(KeyPrefix(kind)) + 1, Len(key))

\* the text between the kind prefix and the next colon
IdPart(kind, key) ==
    SubSeq(AfterPrefix(kind, key), 1, IndexOf(AfterPrefix(kind, key), ":") - 1)

\* the text after that colon
RestPart(kind, key) ==
    SubSeq(AfterPrefix(kind, key), IndexOf(AfterPrefix(kind, key), ":") + 1,
           Len(AfterPrefix(kind, key)))

\* the key is bubbleId:<b>:<c> with b non-empty
BubbleKeyForm(key) ==
    /\ HasPrefix(key, KeyPrefix("bubbles"))
    /\ IndexOf(AfterPrefix("bubbles", key), ":") > 1

\* the record has bubble_id b and conversation_id c of the key
IdentityFrom(inst, key) ==
    /\ inst.fields["bubble_id"] = JStr(IdPart("bubbles", key))
    /\ DictHas(inst.fields["_raw_data"].v, K_conversation_id)
    /\ DictGet(inst.fields["_raw_data"].v, K_conversation_id) = JStr(RestPart("bubbles", key))

\* the stored rows of the kind that build a record, in scan order
Returnable(kind) ==
    SelectSeq(table, LAMBDA r : HasPrefix(r.key, KeyPrefix(kind)) /\ GoodRow(kind, r))

\* C22: the BubbleConversation that bubbles().execute() returns for a row
\* stored under bubbleId:<b>:<c>, and the one get_cursordiskkv_entry
\* returns for that key, has bubble_id = b whatever bubbleId the payload
\* has, and has c in _raw_data under conversation_id
C22_KeyPartsSetIdentity ==
    /\ (pc = "executed" /\ qkind = "bubbles" /\ qid = None /\ qres.status = "ok") =>
           /\ Len(qres.items) = Len(Returnable("bubbles"))
           /\ \A i \in DOMAIN qres.items :
                 BubbleKeyForm(Returnable("bubbles")[i].key) =>
                     IdentityFrom(qres.items[i], Returnable("bubbles")[i].key)
    /\ (qkind = "bubbles" /\ call # None /\ result.status = "ok" /\ BubbleKeyForm(call.v)) =>
           IdentityFrom(result.value, call.v)

\* C28: with filter_by_bubble_id(b), execute() of a bubble, checkpoint or
\* message-context query returns only records of rows whose identifier
\* part is b, character for character: what it returns is what it returns
\* from a table that holds those rows alone
C28_IdentifierFilterIsExact ==
    (pc = "executed" /\ qkind \in KeyedKinds /\ qid # None /\ qres.status = "ok") =>
        qres.items =
            execute(qkind,
                    SelectSeq(table, LAMBDA r : /\ HasPrefix(r.key, KeyPrefix(qkind))
                                                /\ IdPart(qkind, r.key) = qid.v),
                    tracking, qlimit, qoffset, qfilters, qid).items

(***************************************************************************)
(* Specification SpecDates: stored bubbles are filtered by creation date   *)
(* through BubbleQuery.where(created_after, created_before).execute() and  *)
(* through execute().filter_by_date_range(start, end).  Both predicates    *)
(* read nothing of a bubble but created_at, so a bubble is its created_at: *)
(* None, or a string that dateutil parses to a datetime or rejects.  A     *)
(* datetime is DateTime(wall, tz), tz "" when naive, else the UTC offset   *)
(* in the unit of wall.                                                    *)
(***************************************************************************)
MaxBubbles == 2    \* stored bubbles

\* a created_at string and what dateutil.parser.parse makes of it
IsoText(parsed) == [t |-> "str", v |-> parsed]
T_unparseable == [t |-> "unparseable", v |-> "unparseable"]

CreatedAtPool ==
    {None, JStr(<<>>), IsoText(T_unparseable), IsoText(DateTime(1, "")),
     IsoText(DateTime(2, "+0")), IsoText(DateTime(3, "+1"))}
AfterArgs == {None, DateTime(2, ""), DateTime(2, "+0"), DateTime(3, "+1")}
BeforeArgs == {None, DateTime(2, ""), DateTime(3, "+0")}

\* utcoffset() of an aware datetime
UtcOffset(d) == IF d.v[2] = "+1" THEN 1 ELSE 0
Aware(d) == d.v[2] # ""

\* x < y of two datetimes: "true", "false", or TypeError when one is
\* naive and the other aware
DateLess(x, y) ==
    IF Aware(x) # Aware(y) THEN "TypeError"
    ELSE IF x.v[1] - (IF Aware(x) THEN UtcOffset(x) ELSE 0)
              < y.v[1] - (IF Aware(y) THEN UtcOffset(y) ELSE 0)
    THEN "true" ELSE "false"

\* d.replace(tzinfo=None) if d.tzinfo else d
Naive(d) == DateTime(d.v[1], "")

\* parse_date(created_at) inside the try statement: the datetime, or
\* "except" when the import or the parse raises
ParseDate(created_at, installed) ==
    IF ~installed \/ created_at.v = T_unparseable THEN T_unparseable ELSE created_at.v

\* the first of the outcomes that is not "false", else "true": the chain
\* of "if ...: return False" statements that ends in "return True"
FirstNotFalse(checks) ==
    IF \E i \in DOMAIN checks : checks[i] # "false"
    THEN checks[Min({i \in DOMAIN checks : checks[i] # "false"})]
    ELSE "true"

\* "return False" when the comparison holds, its exception when it raises
RejectIf(less) == IF less = "true" THEN "reject" ELSE less

\* the outcome of a predicate from the chain of its checks
Verdict(checks) ==
    IF FirstNotFalse(checks) = "reject" THEN "false" ELSE FirstNotFalse(checks)

\* date_filter of BubbleQuery.where from the parsed datetime on: the
\* comparisons are outside the try statement
DateFilterOn(created, created_after, created_before) ==
    IF created = T_unparseable THEN "false"
    ELSE Verdict(<<IF created_after # None THEN RejectIf(DateLess(created, created_after))
                   ELSE "false",
                   IF created_before # None THEN RejectIf(DateLess(created_before, created))
                   ELSE "false">>)

\* date_filter(conv)
date_filter(created_at, created_after, created_before, installed) ==
    IF ~PyTruthy(created_at) THEN "false"
    ELSE DateFilterOn(ParseDate(created_at, installed), created_after, created_before)

\* predicate of filter_by_date_range from the parsed datetime on: both
\* sides are made naive, and the comparisons are inside the try statement
RangePredicateOn(created, start, end) ==
    IF created = T_unparseable THEN "false"
    ELSE Verdict(<<IF start # None THEN RejectIf(DateLess(Naive(created), Naive(start)))
                   ELSE "false",
                   IF end # None THEN RejectIf(DateLess(Naive(end), Naive(created)))
                   ELSE "false">>)

\* predicate(conv) of filter_by_date_range
range_predicate(created_at, start, end, installed) ==
    IF ~PyTruthy(created_at) THEN "false"
    ELSE RangePredicateOn(ParseDate(created_at, installed), start, end)

\* [b for b in bubbles if f(b)], verdicts[i] being the outcome of f on
\* bubble i
Comprehend(bubbles, verdicts) ==
    IF \E i \in DOMAIN verdicts : verdicts[i] \notin {"true", "false"}
    THEN Raises(verdicts[Min({i \in DOMAIN verdicts : verdicts[i] \notin {"true", "false"}})], <<>>)
    ELSE Result(SelectSeq([i \in DOMAIN bubbles |-> <<i, bubbles[i]>>],
                          LAMBDA p : verdicts[p[1]] = "true"), <<>>)

\* where(created_after=a, created_before=b).execute(): where registers
\* date_filter only when one of the two is given
WhereDatesExecute(bubbles, a, b, installed) ==
    IF a = None /\ b = None THEN Comprehend(bubbles, [i \in DOMAIN bubbles |-> "true"])
    ELSE Comprehend(bubbles, [i \in DOMAIN bubbles |-> date_filter(bubbles[i], a, b, installed)])

\* execute().filter_by_date_range(start=a, end=b)
ExecuteFilterByDateRange(bubbles, a, b, installed) ==
    Comprehend(bubbles, [i \in DOMAIN bubbles |-> range_predicate(bubbles[i], a, b, installed)])

\* the sequences of at most n created_at values
RECURSIVE BubbleLists(_)
BubbleLists(n) ==
    IF n = 0 THEN {<<>>}
    ELSE LET shorter == BubbleLists(n - 1)
         IN  shorter \cup {Append(l, c) : l \in {m \in shorter : Len(m) = n - 1},
                                          c \in CreatedAtPool}

DatesInit ==
    /\ pc = "dates"
    /\ call \in {[t |-> "dates", v |-> [bubbles |-> l, a |-> a, b |-> b, installed |-> d]] :
                    l \in BubbleLists(MaxBubbles), a \in AfterArgs, b \in BeforeArgs,
                    d \in BOOLEAN}
    /\ result = None
    /\ RecIdle /\ KeyIdle /\ DecIdle /\ QryIdle /\ CollIdle /\ CliIdle /\ BldIdle

\* bubbles().where(created_after=a, created_before=b).execute()
QueryDates ==
    /\ pc = "dates" /\ qres = None
    /\ qres' = WhereDatesExecute(call.v.bubbles, call.v.a, call.v.b, call.v.installed)
    /\ UNCHANGED <<fnVars, pc, recVars, keyVars, decVars, dbVars, collVars, cliVars, bldVars,
                   qkind, qlimit, qoffset, qfilters, qid, cres>>

\* bubbles().execute().filter_by_date_range(start=a, end=b)
CollectionDates ==
    /\ pc = "dates" /\ cres = None
    /\ cres' = ExecuteFilterByDateRange(call.v.bubbles, call.v.a, call.v.b, call.v.installed)
    /\ UNCHANGED <<fnVars, pc, recVars, keyVars, decVars, dbVars, collVars, cliVars, bldVars,
                   qkind, qlimit, qoffset, qfilters, qid, qres>>

DatesNext == QueryDates \/ CollectionDates

SpecDates == DatesInit /\ [][DatesNext]_vars

\* C29: for every list of stored bubbles and all datetimes a and b, naive
\* or aware, the query with where(created_after=a, created_before=b)
\* returns without raising, and it returns the items that
\* filter_by_date_range(start=a, end=b) keeps of the unfiltered result
C29_QueryDateFilterAgreesWithCollection ==
    /\ (pc = "dates" /\ qres # None) => qres.status = "ok"
    /\ (pc = "dates" /\ qres # None /\ cres # None) => qres.items = cres.items

(***************************************************************************)
(* Specification SpecGroupers: the grouping helpers of the domain          *)
(* collections.  An item carries the attributes the helpers read.          *)
(***************************************************************************)
MaxGrouped == 2    \* items of the collection that is grouped

Unknown == JStr(<<"unknown">>)
M1 == JStr(<<"m1">>)
Py == JStr(<<".py">>)
Js == JStr(<<".js">>)

\* a BubbleConversation: created_at, and model_name as the property gives it
Bubble(created_at, model_name) ==
    [kind |-> "BubbleConversation",
     fields |-> [created_at |-> created_at, model_name |-> model_name]]

\* an AICodeTrackingEntry whose metadata has the given items
TrackedEntry(metadata) ==
    [kind |-> "AICodeTrackingEntry", fields |-> [metadata |-> JObj(metadata)]]

\* a ComposerSession with the list file_extensions
SessionWith(id, file_extensions) ==
    [kind |-> "ComposerSession",
     fields |-> [composer_id |-> JStr(id), file_extensions |-> file_extensions]]

GroupedKinds == {"BubbleConversation", "AICodeTrackingEntry", "ComposerSession"}

GroupedPool(kind) ==
    CASE kind = "BubbleConversation" ->
            {Bubble(c, m) : c \in {None, IsoText(T_unparseable), IsoText(DateTime(1, "")),
                                   IsoText(DateTime(2, "+0"))},
                            m \in {None, JStr(<<>>), M1}}
      [] kind = "AICodeTrackingEntry" ->
            {TrackedEntry(<<>>), TrackedEntry(<< <<K_source, JStr(<<>>)>> >>),
             TrackedEntry(<< <<K_source, M1>>, <<K_fileExtension, Py>> >>),
             TrackedEntry(<< <<K_fileExtension, Js>> >>)}
      [] kind = "ComposerSession" ->
            {SessionWith(<<"a">>, <<>>), SessionWith(<<"b">>, <<Py>>),
             SessionWith(<<"c">>, <<Js, Py>>)}

\* the lists of at most n items of one pool
RECURSIVE GroupedLists(_, _)
GroupedLists(kind, n) ==
    IF n = 0 THEN {<<>>}
    ELSE LET shorter == GroupedLists(kind, n - 1)
         IN  shorter \cup {Append(l, x) : l \in {m \in shorter : Len(m) = n - 1},
                                          x \in GroupedPool(kind)}

\* created.strftime("%Y-%m-%d"), the day being the wall-clock value
StrfDate(created) == JStr(<<"2024-01-0" \o ToString(created.v[1])>>)

\* x or "unknown"
OrUnknown(x) == IF PyTruthy(x) THEN x ELSE Unknown

\* key_func of group_by_date
date_key(conv, installed) ==
    IF ~PyTruthy(conv.fields.created_at) THEN Unknown
    ELSE IF ParseDate(conv.fields.created_at, installed) = T_unparseable THEN Unknown
    ELSE StrfDate(ParseDate(conv.fields.created_at, installed))

\* key_func of group_by_model, of group_by_source and of
\* AICodeTrackingCollection.group_by_extension
model_key(conv) == OrUnknown(conv.fields.model_name)
source_key(entry) == OrUnknown(MetadataGet(entry, K_source))
extension_key(entry) == OrUnknown(MetadataGet(entry, K_fileExtension))

\* group_by over the keys key_func gives the items: the dict as
\* <<key, items>> pairs, keys in the order of their first item
Grouping(items, keys) ==
    [p \in DOMAIN SelectSeq([i \in DOMAIN keys |-> <<i, keys[i]>>],
                            LAMBDA q : \A j \in 1..(q[1] - 1) : keys[j] # q[2]) |->
        <<SelectSeq([i \in DOMAIN keys |-> <<i, keys[i]>>],
                    LAMBDA q : \A j \in 1..(q[1] - 1) : keys[j] # q[2])[p][2],
          [r \in DOMAIN SelectSeq([i \in DOMAIN items |-> i],
                                  LAMBDA i : keys[i] =
                                      SelectSeq([n \in DOMAIN keys |-> <<n, keys[n]>>],
                                                LAMBDA q : \A j \in 1..(q[1] - 1) :
                                                    keys[j] # q[2])[p][2]) |->
              items[SelectSeq([i \in DOMAIN items |-> i],
                              LAMBDA i : keys[i] =
                                  SelectSeq([n \in DOMAIN keys |-> <<n, keys[n]>>],
                                            LAMBDA q : \A j \in 1..(q[1] - 1) :
                                                keys[j] # q[2])[p][2])[r]]]>>]

\* the <<session index, extension>> pairs the two loops of
\* ComposerSessionCollection.group_by_extension go through, in their order
RECURSIVE ExtensionVisits(_, _)
ExtensionVisits(sessions, i) ==
    IF i > Len(sessions) THEN <<>>
    ELSE [n \in DOMAIN sessions[i].fields.file_extensions |->
             <<i, sessions[i].fields.file_extensions[n]>>]
         \o ExtensionVisits(sessions, i + 1)

\* ComposerSessionCollection.group_by_extension: a session is appended to
\* the group of each of its extensions
session_group_by_extension(sessions) ==
    Grouping([n \in DOMAIN ExtensionVisits(sessions, 1) |->
                 sessions[ExtensionVisits(sessions, 1)[n][1]]],
             [n \in DOMAIN ExtensionVisits(sessions, 1) |->
                 ExtensionVisits(sessions, 1)[n][2]])

\* the grouping helpers of a collection of the kind
GroupersOf(kind) ==
    CASE kind = "BubbleConversation" -> {"group_by_date", "group_by_model"}
      [] kind = "AICodeTrackingEntry" -> {"group_by_source", "group_by_extension"}
      [] kind = "ComposerSession" -> {"group_by_extension"}

\* the dict the helper returns
Grouper(kind, helper, items, installed) ==
    CASE helper = "group_by_date" ->
            Grouping(items, [i \in DOMAIN items |-> date_key(items[i], installed)])
      [] helper = "group_by_model" ->
            Grouping(items, [i \in DOMAIN items |-> model_key(items[i])])
      [] helper = "group_by_source" ->
            Grouping(items, [i \in DOMAIN items |-> source_key(items[i])])
      [] helper = "group_by_extension" /\ kind = "AICodeTrackingEntry" ->
            Grouping(items, [i \in DOMAIN items |-> extension_key(items[i])])
      [] helper = "group_by_extension" /\ kind = "ComposerSession" ->
            session_group_by_extension(items)

GroupersInit ==
    /\ pc = "collection"
    /\ call \in UNION {{[t |-> "collection",
                          v |-> [kind |-> k, items |-> l, installed |-> d]] :
                            l \in GroupedLists(k, MaxGrouped), d \in BOOLEAN} :
                         k \in GroupedKinds}
    /\ result = None
    /\ RecIdle /\ KeyIdle /\ DecIdle /\ QryIdle /\ CollIdle /\ CliIdle /\ BldIdle

\* collection.<helper>()
GroupBy(helper) ==
    /\ pc = "collection"
    /\ helper \in GroupersOf(call.v.kind)
    /\ pc' = "grouped"
    /\ call' = [call EXCEPT !.t = helper]
    /\ result' = Grouper(call.v.kind, helper, call.v.items, call.v.installed)
    /\ UNCHANGED <<recVars, keyVars, decVars, dbVars, qryVars, collVars, cliVars, bldVars>>

GroupByDate == GroupBy("group_by_date")
GroupByModel == GroupBy("group_by_model")
GroupBySource == GroupBy("group_by_source")
GroupByExtension == GroupBy("group_by_extension")

GroupersNext == GroupByDate \/ GroupByModel \/ GroupBySource \/ GroupByExtension

SpecGroupers == GroupersInit /\ [][GroupersNext]_vars

\* the derived key of the item is absent or unparseable
KeyMissing(helper, item, installed) ==
    CASE helper = "group_by_date" ->
            \/ ~PyTruthy(item.fields.created_at)
            \/ ParseDate(item.fields.created_at, installed) = T_unparseable
      [] helper = "group_by_model" -> ~PyTruthy(item.fields.model_name)
      [] helper = "group_by_source" -> ~PyTruthy(MetadataGet(item, K_source))
      [] helper = "group_by_extension" /\ item.kind = "AICodeTrackingEntry" ->
            ~PyTruthy(MetadataGet(item, K_fileExtension))
      [] helper = "group_by_extension" /\ item.kind = "ComposerSession" ->
            item.fields.file_extensions = <<>>

\* the item is in a group of the dict; in the group of the key
InSomeGroup(groups, item) ==
    \E g \in DOMAIN groups : \E n \in DOMAIN groups[g][2] : groups[g][2][n] = item
InGroup(groups, key, item) ==
    \E g \in DOMAIN groups :
        groups[g][1] = key /\ \E n \in DOMAIN groups[g][2] : groups[g][2][n] = item

\* C23: after any grouping helper of a domain collection, every item of
\* the collection is in at least one group of the result, and an item
\* whose derived key is absent or unparseable is in the group "unknown"
C23_GroupersLoseNoItem ==
    pc = "grouped" =>
        \A i \in DOMAIN call.v.items :
            /\ InSomeGroup(result, call.v.items[i])
            /\ KeyMissing(call.t, call.v.items[i], call.v.installed)
                  => InGroup(result, Unknown, call.v.items[i])

\* execute() of the same builder without its predicates: the
\* post-pagination set the predicates are applied to
PostPagination == execute(qkind, table, tracking, qlimit, qoffset, <<>>, qid)

\* C25: when execute() returns, every registered predicate was called on
\* every item of the post-pagination set: the calls logged number
\* len(_filters) times the items of that set, none left out because an
\* earlier predicate rejected its item
C25_NoPredicateShortCircuited ==
    (pc = "executed" /\ qres.status = "ok" /\ PostPagination.status = "ok") =>
        Len(qres.log) = Len(qfilters) * Len(PostPagination.items)

(***************************************************************************)
(* Specification SpecSessions: a JSON list is stored under                 *)
(* aiCodeTrackingLines; the sessions are read through                      *)
(* client.get_composer_sessions() and through                              *)
(* client.query().composer_sessions().execute().                           *)
(***************************************************************************)
\* the text of {"hash": hash, "metadata": metadata}
EntryWith(hash, metadata) ==
    <<Punct("{"), StrLit(K_hash), Punct(":"), StrLit(hash), Punct(","),
      StrLit(K_metadata), Punct(":")>> \o metadata \o <<Punct("}")>>

\* entries of sessions a and b, entries without a composerId and with an
\* empty one, and an entry whose metadata is a string
SessionEntryPool ==
    {EntryText(<<"h","1">>, <<"a">>, <<"a">>), EntryText(<<"h","2">>, <<"b">>, <<"b">>),
     EntryText(<<"h","3">>, <<"a">>, <<"a">>), EntryText(<<"h","5">>, <<"a">>, <<>>),
     EntryWith(<<"h","6">>, <<Punct("{"), StrLit(K_composerId), Punct(":"), StrLit(<<>>),
                              Punct("}")>>),
     EntryWith(<<"h","7">>, <<StrLit(<<"x">>)>>)}

SessionsInit ==
    /\ pc = "sessions"
    /\ table = <<>>
    /\ tracking \in {Bytes(ListText(l)) : l \in Lists(SessionEntryPool, MaxRows)}
    /\ qkind = "composer_sessions" /\ qlimit = None /\ qoffset = 0 /\ qfilters = <<>>
    /\ qid = None /\ qres = None /\ cres = None
    /\ RecIdle /\ KeyIdle /\ DecIdle /\ CollIdle /\ CliIdle /\ BldIdle /\ FnIdle

\* client.get_composer_sessions()
get_composer_sessions(value) == SessionsOfEntries(get_ai_code_tracking_entries(value))

GetComposerSessions ==
    /\ pc = "sessions" /\ result = None
    /\ result' = get_composer_sessions(tracking)
    /\ UNCHANGED <<call, pc, recVars, keyVars, decVars, dbVars, qryVars, collVars, cliVars,
                   bldVars>>

\* client.query().composer_sessions().execute()
ExecuteSessions ==
    /\ pc = "sessions" /\ qres = None
    /\ qres' = execute(qkind, table, tracking, qlimit, qoffset, qfilters, qid)
    /\ UNCHANGED <<fnVars, pc, recVars, keyVars, decVars, dbVars, collVars, cliVars, bldVars,
                   qkind, qlimit, qoffset, qfilters, qid, cres>>

SessionsNext == GetComposerSessions \/ ExecuteSessions

SpecSessions == SessionsInit /\ [][SessionsNext]_vars

\* the composerId of a tracking entry; an entry whose metadata is no dict
\* has none
ComposerIdOf(entry) ==
    IF IsDict(entry.fields["metadata"]) THEN MetadataGet(entry, K_composerId) ELSE None

\* the indices of the entries that are the first with their non-empty
\* composerId, in order
FirstOfSession(entries) ==
    SelectSeq([i \in DOMAIN entries |-> i],
              LAMBDA i : /\ PyTruthy(ComposerIdOf(entries[i]))
                         /\ \A j \in 1..(i - 1) :
                               ComposerIdOf(entries[j]) # ComposerIdOf(entries[i]))

\* sessions has one session per distinct non-empty composerId of entries,
\* in order of first occurrence, each counting the entries with its id
SessionsConserve(sessions, entries) ==
    /\ sessions.status = "ok"
    /\ Len(sessions.items) = Len(FirstOfSession(entries))
    /\ \A n \in DOMAIN sessions.items :
          /\ n <= Len(FirstOfSession(entries))
          /\ sessions.items[n].fields.composer_id
                = ComposerIdOf(entries[FirstOfSession(entries)[n]])
          /\ sessions.items[n].fields.entries_count
                = Cardinality({j \in DOMAIN entries :
                                  ComposerIdOf(entries[j])
                                     = ComposerIdOf(entries[FirstOfSession(entries)[n]])})

\* C30: get_composer_sessions() and composer_sessions().execute() without
\* limit, offset or predicates return one ComposerSession per distinct
\* non-empty composerId of the tracking entries, in order of first
\* occurrence, with entries_count the number of entries carrying the id;
\* entries without one are in no session
C30_SessionGroupingConservesEntries ==
    /\ (pc = "sessions" /\ result # None) =>
           SessionsConserve(result, get_ai_code_tracking_entries(tracking).items)
    /\ (pc = "sessions" /\ qres # None) =>
           SessionsConserve(qres, get_ai_code_tracking_entries(tracking).items)

====
